---------------------------- MODULE Spec2Model ----------------------------
(***************************************************************************)
(* Perpetual-contract dashboard: the two exchange adapters                 *)
(* (getBinancePerps, getBybitPerps), the market-data resolver              *)
(* (src/lib/marketData.ts) and the aggregation handler GET /api/perps.     *)
(*                                                                         *)
(* Upstream HTTP responses are the inputs.  A response is a record with a  *)
(* status ("ok", "malformed": a body without the expected fields,          *)
(* "reject": axios rejects) and a body.  JavaScript numbers are modelled   *)
(* as records so that NaN, undefined and null stay distinct from 0.        *)
(* The pass-through fields volume24h, fundingRate and nextFundingTime are  *)
(* copied by the code without any decision depending on them and are left  *)
(* out of the records.                                                     *)
(***************************************************************************)
EXTENDS Integers, Sequences, FiniteSets, TLC

VARIABLES
    bnIn,       \* upstream responses seen by one pass of getBinancePerps
    byIn,       \* upstream responses seen by one pass of getBybitPerps
    bnRes,      \* settled promise of getBinancePerps (status "pending" before)
    byRes,      \* settled promise of getBybitPerps
    passes,     \* the adapters invoked in this behaviour
    now,                \* Date.now(), in ms since the process started
    ticks,              \* how often the clock has advanced
    symbolToIdCache,    \* marketData.ts: base symbol -> coin id
    coinsListCache,     \* marketData.ts: the cached /coins/list body, if any
    coinsListCacheTime, \* marketData.ts: when it was cached
    marketDataCache,    \* marketData.ts: coin id -> {data, timestamp}
    call,               \* the running invocation of getBatchMarketDataForSymbols
    prev,               \* what the invocation before it did
    calls,              \* invocations started so far
    get,                \* the running request GET /api/perps
    grpIn,      \* response seen by the group variant of getBinanceInsuranceFund
    grpRes,     \* the map it returns
    histIn,     \* a request GET /api/funding-history and what upstream answers
    histRes,    \* the response to it
    mdIn,       \* the symbols parameter of a request GET /api/market-data
    md,         \* where that request stands, and its response
    home,       \* the dashboard page: its state, its timer and its clock
    loop,       \* one per-symbol batch loop of an adapter, request by request
    writers,    \* two resolver invocations that interleave at their network calls
    writes,     \* the marketDataCache.set calls made so far, in order
    contract,   \* a contract symbol given to extractBaseSymbol
    base,       \* what extractBaseSymbol returned for it, once it has
    perpTable   \* PerpTable.tsx: the expanded-row state and its history requests

adapterVars == <<bnIn, byIn, bnRes, byRes, passes>>
cacheVars == <<symbolToIdCache, coinsListCache, coinsListCacheTime, marketDataCache>>
resolverVars == <<now, ticks, cacheVars, call, prev, calls>>
legacyVars == <<grpIn, grpRes>>
historyVars == <<histIn, histRes>>
marketRouteVars == <<mdIn, md>>
homeVars == <<home>>
fineVars == <<loop, writers, writes, contract, base, perpTable>>
sideVars == <<legacyVars, historyVars, marketRouteVars, homeVars, fineVars>>
vars == <<adapterVars, resolverVars, get, sideVars>>

(***************************************************************************)
(* JavaScript values                                                       *)
(***************************************************************************)
RECURSIVE GCD(_, _)
GCD(a, b) == IF b = 0 THEN a ELSE GCD(b, a % b)

AbsInt(a) == IF a < 0 THEN -a ELSE a

\* the rational n/d (d # 0) in lowest terms with a positive denominator
Rat(n, d) ==
    LET g == GCD(AbsInt(n), AbsInt(d))
        s == IF d < 0 THEN -1 ELSE 1
    IN  [k |-> "num", n |-> (s * n) \div g, d |-> (s * d) \div g]

Num(n) == [k |-> "num", n |-> n, d |-> 1]
NaN    == [k |-> "nan", n |-> 0, d |-> 1]
Undef  == [k |-> "undef", n |-> 0, d |-> 1]
Null   == [k |-> "null", n |-> 0, d |-> 1]
\* +Infinity / -Infinity (n is the sign)
Inf(s) == [k |-> "inf", n |-> s, d |-> 1]

IsNum(x) == x.k = "num"

\* truthiness of a number-or-missing value: 0, NaN, undefined, null are falsy
Truthy(x) == x.k = "inf" \/ (x.k = "num" /\ x.n # 0)

\* x || y
JsOr(x, y) == IF Truthy(x) THEN x ELSE y

\* x ?? y
JsCoalesce(x, y) == IF x.k \in {"undef", "null"} THEN y ELSE x

\* x > y on numbers; any comparison with NaN or undefined is false
JsGt(x, y) ==
    /\ x.k \in {"num", "inf"} /\ y.k \in {"num", "inf"}
    /\ CASE x.k = "num" /\ y.k = "num" -> x.n * y.d > y.n * x.d
         [] x.k = "inf" /\ y.k = "num" -> x.n > 0
         [] x.k = "num" /\ y.k = "inf" -> y.n < 0
         [] OTHER -> x.n > y.n

JsGe(x, y) == JsGt(x, y) \/ (x.k \in {"num", "inf"} /\ x = y)

\* x * y
JsMul(x, y) ==
    IF IsNum(x) /\ IsNum(y) THEN Rat(x.n * y.n, x.d * y.d) ELSE NaN

\* x - y
JsSub(x, y) ==
    IF IsNum(x) /\ IsNum(y) THEN Rat(x.n * y.d - y.n * x.d, x.d * y.d) ELSE NaN

\* x / y
JsDiv(x, y) ==
    IF IsNum(x) /\ IsNum(y)
    THEN IF y.n # 0 THEN Rat(x.n * y.d, x.d * y.n)
         ELSE IF x.n = 0 THEN NaN ELSE Inf(IF x.n > 0 THEN 1 ELSE -1)
    ELSE NaN

\* Math.abs
MathAbs(x) == IF IsNum(x) THEN [x EXCEPT !.n = AbsInt(x.n)] ELSE NaN

\* Math.round: the nearest integer, halves rounded up
MathRound(x) ==
    IF IsNum(x) THEN Num((2 * x.n + x.d) \div (2 * x.d)) ELSE NaN

\* Math.max(x, y): NaN when either argument is NaN
MathMax(x, y) ==
    IF IsNum(x) /\ IsNum(y) THEN (IF JsGt(y, x) THEN y ELSE x) ELSE NaN

\* parseFloat / parseInt / Number of an upstream field that holds a decimal
\* integer, an unparseable text (NaN) or nothing (undefined)
parseFloat(raw) == IF IsNum(raw) THEN raw ELSE NaN

\* parseFloat(raw || dflt) / parseInt(raw || dflt): a missing field and the
\* number 0 are falsy, an unparseable text is truthy and parses to NaN
parseFloatOr(raw, dflt) ==
    parseFloat(IF raw.k = "undef" \/ raw = Num(0) THEN dflt ELSE raw)

parseFloatOr0(raw) == parseFloatOr(raw, Num(0))

(***************************************************************************)
(* Maps: a JavaScript Map read by key is a function on its key set         *)
(***************************************************************************)
EmptyMap == [x \in {} |-> Undef]

Has(m, key) == key \in DOMAIN m

MapSet(m, key, v) == [x \in DOMAIN m \cup {key} |-> IF x = key THEN v ELSE m[x]]

\* the map built by items.forEach(item => map.set(K(item), V(item))):
\* the last item with a key wins
LastIndex(items, K(_), key) ==
    CHOOSE i \in DOMAIN items :
        /\ K(items[i]) = key
        /\ \A j \in DOMAIN items : K(items[j]) = key => j <= i

MapOfSeq(items, K(_), V(_)) ==
    [key \in {K(items[i]) : i \in DOMAIN items} |->
        V(items[LastIndex(items, K, key)])]

\* items.filter(P).map(F)
SeqMapFilter(items, P(_), F(_)) ==
    LET kept == SelectSeq(items, P)
    IN  [i \in DOMAIN kept |-> F(kept[i])]

\* the settled outcome of an async function body: a value, or a thrown error
Ok(v) == [thrown |-> FALSE, value |-> v]
Thrown == [thrown |-> TRUE, value |-> <<>>]

\* [...new Set(items)]: the first occurrence of each item, in order
Distinct(items) ==
    LET firsts == SelectSeq([i \in DOMAIN items |-> i],
                            LAMBDA i : \A j \in 1..(i - 1) : items[j] # items[i])
    IN  [k \in DOMAIN firsts |-> items[firsts[k]]]

\* a promise that has not settled
Pending == [status |-> "pending", value |-> <<>>]

\* try { body } catch { return fallback }
TryCatch(outcome, fallback) == IF outcome.thrown THEN Ok(fallback) ELSE outcome

(***************************************************************************)
(* Contract symbols are character sequences                                *)
(***************************************************************************)
BTCUSDT == <<"B", "T", "C", "U", "S", "D", "T">>
XYZUSDT == <<"X", "Y", "Z", "U", "S", "D", "T">>


Symbols == {BTCUSDT, XYZUSDT}

(***************************************************************************)
(* Binance adapter                                                         *)
(***************************************************************************)
IsTradable(s) == s.tradable
SymbolEntry(s) ==
    [symbol |-> s.symbol,
     fundingIntervalHours |-> JsOr(s.fundingIntervalHours, Num(8))]

\* GET /fapi/v1/exchangeInfo, filtered to trading USDT perpetuals
getBinanceSymbols(w) ==
    TryCatch(IF w.exchangeInfo.status = "ok"
             THEN Ok(SeqMapFilter(w.exchangeInfo.body, IsTradable, SymbolEntry))
             ELSE Thrown,
             <<>>).value

MsPerHour == 3600000

\* one symbol of the funding-interval inference: the two latest funding times
\* the inference without Math.abs
inferIntervalSigned(resp) ==
    TryCatch(IF resp.status = "reject" THEN Thrown
             ELSE IF resp.status = "ok" /\ Len(resp.body) >= 2
                  THEN LET intervalMs ==
                               JsSub(parseFloat(resp.body[1]),
                                     parseFloat(resp.body[2]))
                       IN  Ok(MathMax(Num(1),
                                      MathRound(JsDiv(intervalMs, Num(MsPerHour)))))
                  ELSE Ok(Num(8)),
             Num(8)).value

inferInterval(resp) ==
    TryCatch(IF resp.status = "reject" THEN Thrown
             ELSE IF resp.status = "ok" /\ Len(resp.body) >= 2
                  THEN LET intervalMs ==
                               MathAbs(JsSub(parseFloat(resp.body[1]),
                                             parseFloat(resp.body[2])))
                       IN  Ok(MathMax(Num(1),
                                      MathRound(JsDiv(intervalMs, Num(MsPerHour)))))
                  ELSE Ok(Num(8)),
             Num(8)).value

getBinanceFundingIntervals(w, symbolList) ==
    [s \in {symbolList[i] : i \in DOMAIN symbolList} |->
        inferInterval(w.fundingRate[s])]

ItemSymbol(item) == item.symbol
PremiumValue(item) == [markPrice |-> parseFloat(item.markPrice)]
TickerValue(item) == [lastPrice |-> parseFloat(item.lastPrice)]

\* GET /fapi/v1/premiumIndex
getBinancePremiumIndex(w) ==
    TryCatch(IF w.premiumIndex.status = "ok"
             THEN Ok(MapOfSeq(w.premiumIndex.body, ItemSymbol, PremiumValue))
             ELSE Thrown,
             EmptyMap).value

\* GET /fapi/v1/ticker/24hr
getBinance24hrTicker(w) ==
    TryCatch(IF w.ticker24hr.status = "ok"
             THEN Ok(MapOfSeq(w.ticker24hr.body, ItemSymbol, TickerValue))
             ELSE Thrown,
             EmptyMap).value

\* markPricesForOi: the mark price, or the last price of a symbol without one
markPricesForOi(premiumIndexMap, ticker24hMap) ==
    [s \in DOMAIN premiumIndexMap \cup DOMAIN ticker24hMap |->
        IF Has(premiumIndexMap, s) THEN premiumIndexMap[s].markPrice
        ELSE ticker24hMap[s].lastPrice]

\* one symbol's GET /fapi/v1/openInterest: the entry, or none when it failed
binanceOiEntry(resp, symbol, markPrices) ==
    TryCatch(IF resp.status = "ok"
             THEN LET contracts == parseFloatOr0(resp.body)
                      markPrice ==
                          JsOr(IF Has(markPrices, symbol) THEN markPrices[symbol]
                               ELSE Undef, Num(0))
                  IN  Ok(<<[contracts |-> contracts,
                            value |-> JsMul(contracts, markPrice)]>>)
             ELSE Thrown,
             <<>>).value

getBinanceOpenInterest(w, symbolsData, markPrices) ==
    LET syms == {symbolsData[i].symbol : i \in DOMAIN symbolsData}
        got(s) == binanceOiEntry(w.openInterest[s], s, markPrices)
    IN  [s \in {x \in syms : got(x) # <<>>} |-> got(s)[1]]

\* one symbol's GET /fapi/v1/insuranceBalance: the USDT margin balance
binanceFundBalance(resp) ==
    TryCatch(IF resp.status = "reject" THEN Thrown
             ELSE IF resp.status = "ok" /\ resp.usdt
                  THEN Ok(parseFloatOr0(resp.marginBalance))
                  ELSE Ok(Num(0)),
             Num(0)).value

getBinanceInsuranceFund(w, symbolsData) ==
    [s \in {symbolsData[i].symbol : i \in DOMAIN symbolsData} |->
        binanceFundBalance(w.insuranceBalance[s])]

\* whether the final loop of getBinancePerps emits the symbol
binanceEmits(premiumIndexMap, ticker24hMap, symbol) ==
    Has(premiumIndexMap, symbol) \/ Has(ticker24hMap, symbol)

binanceRecord(entry, premiumIndexMap, ticker24hMap, computedIntervals, openInterest, insuranceFund) ==
    LET symbol == entry.symbol
        mark == IF Has(premiumIndexMap, symbol)
                THEN premiumIndexMap[symbol].markPrice ELSE Undef
        last == IF Has(ticker24hMap, symbol)
                THEN ticker24hMap[symbol].lastPrice ELSE Undef
        hasOi == Has(openInterest, symbol)
    IN  [symbol |-> symbol,
         markPrice |-> JsCoalesce(mark, JsCoalesce(last, Num(0))),
         lastPrice |-> JsCoalesce(last, JsCoalesce(mark, Num(0))),
         openInterest |-> IF hasOi THEN openInterest[symbol].contracts ELSE Num(0),
         openInterestValue |-> IF hasOi THEN openInterest[symbol].value ELSE Num(0),
         insuranceFund |->
             JsOr(IF Has(insuranceFund, symbol) THEN insuranceFund[symbol]
                  ELSE Undef, Num(0)),
         fundingIntervalHours |->
             JsCoalesce(IF Has(computedIntervals, symbol)
                        THEN computedIntervals[symbol] ELSE Undef,
                        JsCoalesce(entry.fundingIntervalHours, Num(8))),
         hasOpenInterestData |-> hasOi]

\* the try block of getBinancePerps: every helper absorbs its own failures
getBinancePerpsTry(w) ==
    LET symbolsData == getBinanceSymbols(w)
        premiumIndexMap == getBinancePremiumIndex(w)
        ticker24hMap == getBinance24hrTicker(w)
        symbolList == [i \in DOMAIN symbolsData |-> symbolsData[i].symbol]
        computedIntervals == getBinanceFundingIntervals(w, symbolList)
        openInterest ==
            getBinanceOpenInterest(w, symbolsData,
                                   markPricesForOi(premiumIndexMap, ticker24hMap))
        insuranceFund == getBinanceInsuranceFund(w, symbolsData)
        Emits(entry) == binanceEmits(premiumIndexMap, ticker24hMap, entry.symbol)
        Record(entry) ==
            binanceRecord(entry, premiumIndexMap, ticker24hMap, computedIntervals,
                          openInterest, insuranceFund)
    IN  Ok(SeqMapFilter(symbolsData, Emits, Record))

getBinancePerps(w) == TryCatch(getBinancePerpsTry(w), <<>>)


(***************************************************************************)
(* getBinanceInsuranceFund, the variant that asks for all groups at once   *)
(* (the first of the two copies of the Binance adapter)                    *)
(***************************************************************************)
BTCUSDT_Q == BTCUSDT \o <<"_", "Q">>

\* symbol.includes('_')
HasUnderscore(symbol) == \E i \in DOMAIN symbol : symbol[i] = "_"

\* group.symbols.forEach(...) for one group: every perpetual of the group is
\* set to the group's USDT balance divided by the number of its symbols
groupFund(fundMap, group) ==
    IF group.listed /\ group.usdt
    THEN LET fundBalance == parseFloatOr0(group.marginBalance)
             perpetuals == {group.symbols[i] : i \in DOMAIN group.symbols}
             members == {sym \in perpetuals : ~HasUnderscore(sym)}
         IN  [sym \in DOMAIN fundMap \cup members |->
                 IF sym \in members
                 THEN JsDiv(fundBalance, Num(Len(group.symbols)))
                 ELSE fundMap[sym]]
    ELSE fundMap

RECURSIVE groupFundFold(_, _, _)
groupFundFold(groups, i, fundMap) ==
    IF i > Len(groups) THEN fundMap
    ELSE groupFundFold(groups, i + 1, groupFund(fundMap, groups[i]))

\* the body is an array of groups, or (asked with a symbol) one group object
getBinanceInsuranceFundGroup(resp) ==
    TryCatch(IF resp.status = "reject" THEN Thrown
             ELSE IF resp.status = "array"
                  THEN Ok(groupFundFold(resp.body, 1, EmptyMap))
                  ELSE IF resp.status = "object"
                       THEN Ok(groupFund(EmptyMap, resp.body[1]))
                       ELSE Thrown,
             EmptyMap).value


(***************************************************************************)
(* Bybit adapter                                                           *)
(***************************************************************************)
DefaultFundingIntervalMin == 480

BybitSymbolEntry(item) ==
    [symbol |-> item.symbol,
     fundingInterval |->
         parseFloatOr(item.fundingInterval, Num(DefaultFundingIntervalMin))]

\* one symbol's GET /v5/market/open-interest: the entry, or none
bybitOiEntry(resp, symbol, tickersMap) ==
    TryCatch(IF resp.status # "ok" THEN Thrown
             ELSE IF resp.retCode0 /\ Len(resp.body) > 0
                  THEN LET oiInBaseCurrency == parseFloatOr0(resp.body[1])
                           markPrice ==
                               parseFloatOr0(IF Has(tickersMap, symbol)
                                             THEN tickersMap[symbol].markPrice
                                             ELSE Undef)
                       IN  Ok(<<[contracts |-> oiInBaseCurrency,
                                 value |-> JsMul(oiInBaseCurrency, markPrice)]>>)
                  ELSE Ok(<<>>),
             <<>>).value

bybitOiMap(w, symbols, tickersMap) ==
    LET got(s) == bybitOiEntry(w.openInterest[s], s, tickersMap)
    IN  [s \in {x \in symbols : got(x) # <<>>} |-> got(s)[1]]

\* the pool loop in which a later pool overwrites an earlier one
RECURSIVE bybitPoolFoldLastWins(_, _, _, _)
bybitPoolFoldLastWins(pools, i, symbols, m) ==
    IF i > Len(pools) THEN m
    ELSE LET pool == pools[i]
             balance == parseFloatOr0(pool.balance)
             members == {pool.symbols[j] : j \in DOMAIN pool.symbols} \cap symbols
             next ==
                 IF JsGt(balance, Num(0)) /\ pool.symbols # <<>>
                 THEN [s \in DOMAIN m \cup members |->
                          IF s \in members THEN balance ELSE m[s]]
                 ELSE m
         IN  bybitPoolFoldLastWins(pools, i + 1, symbols, next)

\* insuranceList.forEach over the pools from index i on, starting from map m
RECURSIVE bybitPoolFold(_, _, _, _)
bybitPoolFold(pools, i, symbols, m) ==
    IF i > Len(pools) THEN m
    ELSE LET pool == pools[i]
             balance == parseFloatOr0(pool.balance)
             members == {pool.symbols[j] : j \in DOMAIN pool.symbols} \cap symbols
             next ==
                 IF JsGt(balance, Num(0)) /\ pool.symbols # <<>>
                 THEN [s \in DOMAIN m \cup members |->
                          IF s \in members
                          THEN MathMax(JsOr(IF Has(m, s) THEN m[s] ELSE Undef,
                                            Num(0)),
                                       balance)
                          ELSE m[s]]
                 ELSE m
         IN  bybitPoolFold(pools, i + 1, symbols, next)

\* GET /v5/market/insurance with its own try/catch
bybitInsuranceFundMap(w, symbols) ==
    TryCatch(IF w.insurance.status # "ok" THEN Thrown
             ELSE IF w.insurance.retCode0
                  THEN Ok(bybitPoolFold(w.insurance.body, 1, symbols, EmptyMap))
                  ELSE Ok(EmptyMap),
             EmptyMap).value

\* whether the final loop of getBybitPerps emits the symbol
bybitEmits(tickersMap, oiMap, symbol) ==
    /\ Has(tickersMap, symbol)
    /\ Has(oiMap, symbol)
    /\ \/ JsGt(parseFloatOr0(tickersMap[symbol].markPrice), Num(0))
       \/ JsGt(parseFloatOr0(tickersMap[symbol].lastPrice), Num(0))

bybitRecord(entry, tickersMap, oiMap, insuranceFundMap) ==
    LET symbol == entry.symbol
        ticker == tickersMap[symbol]
    IN  [symbol |-> symbol,
         markPrice |-> parseFloatOr0(ticker.markPrice),
         lastPrice |-> parseFloatOr0(ticker.lastPrice),
         openInterest |-> oiMap[symbol].contracts,
         openInterestValue |-> oiMap[symbol].value,
         insuranceFund |->
             JsOr(IF Has(insuranceFundMap, symbol) THEN insuranceFundMap[symbol]
                  ELSE Undef, Num(0)),
         fundingIntervalHours |-> JsDiv(entry.fundingInterval, Num(60))]

IdentityItem(item) == item

\* the try block of getBybitPerps: the instruments and tickers requests are
\* not guarded, their failure leaves the block
getBybitPerpsTry(w) ==
    IF w.instruments.status # "ok" THEN Thrown
    ELSE LET symbolsData ==
                 SeqMapFilter(w.instruments.body, IsTradable, BybitSymbolEntry)
             symbols == {symbolsData[i].symbol : i \in DOMAIN symbolsData}
             tickersMap == MapOfSeq(w.tickers.body, ItemSymbol, IdentityItem)
             oiMap == bybitOiMap(w, symbols, tickersMap)
             insuranceFundMap == bybitInsuranceFundMap(w, symbols)
             Emits(entry) == bybitEmits(tickersMap, oiMap, entry.symbol)
             Record(entry) == bybitRecord(entry, tickersMap, oiMap, insuranceFundMap)
         IN  IF symbolsData = <<>> THEN Ok(<<>>)
             ELSE IF w.tickers.status # "ok" THEN Thrown
             ELSE Ok(SeqMapFilter(symbolsData, Emits, Record))

\* getBybitPerps with the outer try/catch left out
getBybitPerpsNoCatch(w) == getBybitPerpsTry(w)

getBybitPerps(w) == TryCatch(getBybitPerpsTry(w), <<>>)


(***************************************************************************)
(* Upstream responses the adapters are run against.  BTCUSDT ranges over   *)
(* every listed response; XYZUSDT, the "other" symbol, over fewer.         *)
(***************************************************************************)
Resp(status, body) == [status |-> status, body |-> body]

\* funding timestamps (ms): a base time, and distances of 4 h and 30 min
T0 == 8 * MsPerHour
FourHoursMs == 4 * MsPerHour
HalfHourMs == MsPerHour \div 2

RawPrices == {NaN, Num(0), Num(2)}

BnExchangeInfos ==
    {Resp("reject", <<>>), Resp("malformed", <<>>)}
    \cup {Resp("ok", <<[symbol |-> BTCUSDT, tradable |-> t, fundingIntervalHours |-> f]>>
                     \o other) :
            t \in BOOLEAN, f \in {Undef, Num(4)},
            other \in {<<>>, <<[symbol |-> XYZUSDT, tradable |-> TRUE,
                                fundingIntervalHours |-> Undef]>>}}

BnPremiumIndexes ==
    {Resp("reject", <<>>)}
    \cup {Resp("ok", focus \o <<[symbol |-> XYZUSDT, markPrice |-> Num(3)]>>) :
            focus \in {<<>>} \cup {<<[symbol |-> BTCUSDT, markPrice |-> p]>> :
                                     p \in RawPrices}}

BnTickers ==
    {Resp("malformed", <<>>)}
    \cup {Resp("ok", focus \o <<[symbol |-> XYZUSDT, lastPrice |-> Num(3)]>>) :
            focus \in {<<>>} \cup {<<[symbol |-> BTCUSDT, lastPrice |-> p]>> :
                                     p \in RawPrices}}

BnFundingRates ==
    {Resp("reject", <<>>), Resp("ok", <<Num(T0)>>), Resp("malformed", <<>>),
     Resp("ok", <<Num(T0), Num(T0)>>),
     Resp("ok", <<Num(T0 + FourHoursMs), Num(T0)>>),
     Resp("ok", <<Num(T0), Num(T0 + FourHoursMs)>>),
     Resp("ok", <<Num(T0 + HalfHourMs), Num(T0)>>)}

BnOpenInterests ==
    {Resp("reject", Undef), Resp("malformed", Undef), Resp("ok", Undef),
     Resp("ok", Num(5))}

FundResp(status, usdt, marginBalance) ==
    [status |-> status, usdt |-> usdt, marginBalance |-> marginBalance]

BnInsuranceBalances ==
    {FundResp("reject", FALSE, Undef), FundResp("ok", FALSE, Undef)}
    \cup {FundResp("ok", TRUE, b) : b \in {Undef, Num(-1), Num(7)}}

BinanceWorlds ==
    {[exchangeInfo |-> e, premiumIndex |-> p, ticker24hr |-> t,
      fundingRate |-> [s \in Symbols |->
                          IF s = BTCUSDT THEN f ELSE Resp("ok", <<Num(T0)>>)],
      openInterest |-> [s \in Symbols |-> IF s = BTCUSDT THEN o ELSE o2],
      insuranceBalance |-> [s \in Symbols |->
                               IF s = BTCUSDT THEN b ELSE FundResp("ok", TRUE, Num(7))]] :
        e \in BnExchangeInfos, p \in BnPremiumIndexes, t \in BnTickers,
        f \in BnFundingRates, o \in BnOpenInterests,
        o2 \in {Resp("reject", Undef), Resp("ok", Num(1))},
        b \in BnInsuranceBalances}

\* a pass in which every request succeeds
BinanceHealthy ==
    [exchangeInfo |->
         Resp("ok", <<[symbol |-> BTCUSDT, tradable |-> TRUE,
                       fundingIntervalHours |-> Undef]>>),
     premiumIndex |-> Resp("ok", <<[symbol |-> BTCUSDT, markPrice |-> Num(2)]>>),
     ticker24hr |-> Resp("ok", <<[symbol |-> BTCUSDT, lastPrice |-> Num(2)]>>),
     fundingRate |-> [s \in Symbols |-> Resp("ok", <<Num(T0 + FourHoursMs), Num(T0)>>)],
     openInterest |-> [s \in Symbols |-> Resp("ok", Num(5))],
     insuranceBalance |-> [s \in Symbols |-> FundResp("ok", TRUE, Num(7))]]

OiResp(status, retCode0, body) ==
    [status |-> status, retCode0 |-> retCode0, body |-> body]

ByInstruments ==
    {Resp("reject", <<>>), Resp("malformed", <<>>), Resp("ok", <<>>)}
    \cup {Resp("ok", <<[symbol |-> BTCUSDT, tradable |-> TRUE, fundingInterval |-> f]>>
                     \o other) :
            f \in {Undef, Num(0), Num(30), Num(60), Num(240)},
            other \in {<<>>, <<[symbol |-> XYZUSDT, tradable |-> TRUE,
                                fundingInterval |-> Num(480)]>>}}

ByTickers ==
    {Resp("reject", <<>>), Resp("malformed", <<>>)}
    \cup {Resp("ok", focus \o <<[symbol |-> XYZUSDT, markPrice |-> Num(3),
                                 lastPrice |-> Num(3)]>>) :
            focus \in {<<>>} \cup
                {<<[symbol |-> BTCUSDT, markPrice |-> m, lastPrice |-> l]>> :
                    m \in {Undef, Num(0), Num(2)}, l \in {Undef, Num(0), Num(3)}}}

ByOpenInterests ==
    {OiResp("reject", FALSE, <<>>), OiResp("malformed", FALSE, <<>>),
     OiResp("ok", FALSE, <<>>), OiResp("ok", TRUE, <<>>),
     OiResp("ok", TRUE, <<Undef>>), OiResp("ok", TRUE, <<Num(5)>>)}

ByPools ==
    {[balance |-> Num(5), symbols |-> <<BTCUSDT, XYZUSDT>>],
     [balance |-> Num(9), symbols |-> <<BTCUSDT>>],
     [balance |-> Num(-1), symbols |-> <<BTCUSDT>>],
     [balance |-> Num(9), symbols |-> <<>>]}

ByInsurances ==
    {OiResp("reject", FALSE, <<>>), OiResp("malformed", FALSE, <<>>),
     OiResp("ok", FALSE, <<>>), OiResp("ok", TRUE, <<>>)}
    \cup {OiResp("ok", TRUE, <<p>>) : p \in ByPools}
    \cup {OiResp("ok", TRUE, <<p, q>>) : p \in ByPools, q \in ByPools}

BybitWorlds ==
    {[instruments |-> i, tickers |-> t,
      openInterest |-> [s \in Symbols |-> IF s = BTCUSDT THEN o ELSE o2],
      insurance |-> f] :
        i \in ByInstruments, t \in ByTickers, o \in ByOpenInterests,
        o2 \in {OiResp("reject", FALSE, <<>>), OiResp("ok", TRUE, <<Num(1)>>)},
        f \in ByInsurances}

BybitHealthy ==
    [instruments |->
         Resp("ok", <<[symbol |-> BTCUSDT, tradable |-> TRUE,
                       fundingInterval |-> Num(480)]>>),
     tickers |-> Resp("ok", <<[symbol |-> BTCUSDT, markPrice |-> Num(2),
                               lastPrice |-> Num(2)]>>),
     openInterest |-> [s \in Symbols |-> OiResp("ok", TRUE, <<Num(5)>>)],
     insurance |-> OiResp("ok", TRUE,
                          <<[balance |-> Num(9), symbols |-> <<BTCUSDT>>]>>)]

(***************************************************************************)
(* GET /api/perps (src/app/api/perps/route.ts): the records it builds      *)
(***************************************************************************)
\* the ratio left as a fraction instead of a percentage
fundOiRatioFraction(item) ==
    IF JsGt(item.openInterestValue, Num(0))
    THEN JsDiv(item.insuranceFund, item.openInterestValue)
    ELSE Num(0)

fundOiRatio(item) ==
    IF JsGt(item.openInterestValue, Num(0))
    THEN JsMul(JsDiv(item.insuranceFund, item.openInterestValue), Num(100))
    ELSE Num(0)

\* the entry perpsMap.set(`${item.symbol}-${exchange}`, {...}) stores
PerpData(item, exchange) ==
    [symbol |-> item.symbol,
     exchange |-> exchange,
     price |-> JsOr(item.markPrice, item.lastPrice),
     openInterest |-> item.openInterest,
     openInterestValue |-> item.openInterestValue,
     insuranceFund |-> item.insuranceFund,
     fundOiRatio |-> fundOiRatio(item),
     marketCap |-> Null,
     fdv |-> Null,
     fundingIntervalHours |-> item.fundingIntervalHours,
     coinName |-> <<>>,
     coinImage |-> <<>>]

PerpKey(perp) == <<perp.symbol, perp.exchange>>

PerpSymbol(perp) == perp.symbol

MapSeq(items, F(_)) == [i \in DOMAIN items |-> F(items[i])]

\* the records of both loops kept in a list instead of a keyed Map
perpsListOf(binanceData, bybitData) ==
    MapSeq(binanceData, LAMBDA item : PerpData(item, "Binance"))
    \o MapSeq(bybitData, LAMBDA item : PerpData(item, "Bybit"))

\* the values of perpsMap after both forEach loops: a key keeps the place of
\* its first insertion and the value of its last
perpsMapOf(binanceData, bybitData) ==
    LET all == MapSeq(binanceData, LAMBDA item : PerpData(item, "Binance"))
               \o MapSeq(bybitData, LAMBDA item : PerpData(item, "Bybit"))
        keys == Distinct(MapSeq(all, PerpKey))
    IN  [k \in DOMAIN keys |-> all[LastIndex(all, PerpKey, keys[k])]]

\* allSymbols without the Set
allSymbolsOf(binanceData, bybitData) ==
    MapSeq(binanceData, PerpSymbol) \o MapSeq(bybitData, PerpSymbol)

uniqueSymbolsOf(binanceData, bybitData) ==
    Distinct(MapSeq(binanceData, PerpSymbol) \o MapSeq(bybitData, PerpSymbol))

\* the fill-in step reaching only the records of the first venue
fillMarketDataBinanceOnly(perp, marketDataMap) ==
    IF Has(marketDataMap, perp.symbol) /\ perp.exchange = "Binance"
    THEN [perp EXCEPT !.marketCap = marketDataMap[perp.symbol].marketCap,
                      !.fdv = marketDataMap[perp.symbol].fdv,
                      !.coinName = marketDataMap[perp.symbol].name,
                      !.coinImage = marketDataMap[perp.symbol].image]
    ELSE perp

\* the body of perpsMap.forEach that fills in the market data
fillMarketData(perp, marketDataMap) ==
    IF Has(marketDataMap, perp.symbol)
    THEN [perp EXCEPT !.marketCap = marketDataMap[perp.symbol].marketCap,
                      !.fdv = marketDataMap[perp.symbol].fdv,
                      !.coinName = marketDataMap[perp.symbol].name,
                      !.coinImage = marketDataMap[perp.symbol].image]
    ELSE perp

NoResponse ==
    [sent |-> FALSE, status |-> 0, success |-> FALSE, keys |-> {}, data |-> <<>>,
     timestamp |-> 0]

successResponse(result) ==
    [sent |-> TRUE, status |-> 200, success |-> TRUE,
     keys |-> {"success", "data", "timestamp"}, data |-> result, timestamp |-> now]

\* the failure response without its { status: 500 } option
failureResponseDefaultStatus ==
    [sent |-> TRUE, status |-> 200, success |-> FALSE,
     keys |-> {"success", "error", "data"}, data |-> <<>>, timestamp |-> 0]

failureResponse ==
    [sent |-> TRUE, status |-> 500, success |-> FALSE,
     keys |-> {"success", "error", "data"}, data |-> <<>>, timestamp |-> 0]

IdleGet == [pc |-> "idle", perpsMap |-> <<>>, response |-> NoResponse]

FundGroup(symbols, listed, usdt, marginBalance) ==
    [symbols |-> symbols, listed |-> listed, usdt |-> usdt,
     marginBalance |-> marginBalance]

FundGroups ==
    {FundGroup(syms, TRUE, u, b) :
        syms \in {<<BTCUSDT>>, <<BTCUSDT, XYZUSDT>>, <<XYZUSDT, BTCUSDT_Q>>},
        u \in BOOLEAN, b \in {Undef, Num(6)}}
    \cup {FundGroup(<<>>, FALSE, TRUE, Num(6))}

\* bodies GET /fapi/v1/insuranceBalance (no symbol) may answer with
GroupFundResponses ==
    {Resp("reject", <<>>), Resp("malformed", <<>>)}
    \cup {Resp("array", <<g>>) : g \in FundGroups}
    \cup {Resp("array", <<g, h>>) : g, h \in FundGroups}
    \cup {Resp("object", <<g>>) : g \in FundGroups}

(***************************************************************************)
(* GET /api/funding-history                                                *)
(***************************************************************************)
\* Array.prototype.reverse
Reverse(items) == [i \in DOMAIN items |-> items[Len(items) + 1 - i]]

\* searchParams.get(name): null when the parameter is absent
QueryParam(text) == [present |-> TRUE, text |-> text]

NoHistoryResponse ==
    [sent |-> FALSE, status |-> 0, success |-> FALSE, keys |-> {}, data |-> <<>>,
     constituents |-> <<>>]

missingParamResponse ==
    [sent |-> TRUE, status |-> 400, success |-> FALSE, keys |-> {"error"},
     data |-> <<>>, constituents |-> <<>>]

historyFailureResponse ==
    [sent |-> TRUE, status |-> 500, success |-> FALSE, keys |-> {"error"},
     data |-> <<>>, constituents |-> <<>>]

historySuccessResponse(historyData, constituents) ==
    [sent |-> TRUE, status |-> 200, success |-> TRUE,
     keys |-> {"success", "data", "constituents"},
     data |-> historyData, constituents |-> constituents]

binanceHistoryPoint(item) ==
    [time |-> item.fundingTime, rate |-> parseFloat(item.fundingRate)]

bybitHistoryPoint(item) ==
    [time |-> parseFloat(item.fundingRateTimestamp), rate |-> parseFloat(item.fundingRate)]

constituentOf(entry) ==
    [exchange |-> entry.exchange, symbol |-> entry.symbol,
     price |-> parseFloatOr0(entry.price), weight |-> parseFloatOr0(entry.weight)]

\* the constituents request with its try block but no catch
fetchConstituentsNoCatch(resp) ==
    IF resp.status # "ok" THEN Thrown
    ELSE Ok(IF resp.body.hasConstituents
            THEN MapSeq(resp.body.constituents, constituentOf)
            ELSE <<>>)

\* the inner try / catch: constituents stays [] when the request fails
fetchConstituents(resp) == TryCatch(fetchConstituentsNoCatch(resp), <<>>)

\* the Binance branch: a rejected request or a body without map() throws
binanceHistory(req) ==
    IF req.history.status # "ok" \/ ~req.history.body.array THEN Thrown
    ELSE LET constituents == fetchConstituents(req.constituents)
         IN  IF constituents.thrown THEN Thrown
             ELSE Ok([data |-> MapSeq(req.history.body.items, binanceHistoryPoint),
                      constituents |-> constituents.value])

bybitHistory(req) ==
    IF req.history.status # "ok" THEN Thrown
    ELSE Ok([data |-> IF req.history.body.retCode = 0 /\ req.history.body.hasList
                      THEN Reverse(MapSeq(req.history.body.list, bybitHistoryPoint))
                      ELSE <<>>,
             constituents |-> <<>>])

\* the handler: 400 without symbol or exchange, 500 from the outer catch
fundingHistoryGET(req) ==
    IF \/ ~req.symbol.present \/ req.symbol.text = <<>>
       \/ ~req.exchange.present \/ req.exchange.text = ""
    THEN missingParamResponse
    ELSE LET outcome == IF req.exchange.text = "Binance" THEN binanceHistory(req)
                        ELSE IF req.exchange.text = "Bybit" THEN bybitHistory(req)
                        ELSE Ok([data |-> <<>>, constituents |-> <<>>])
         IN  IF outcome.thrown THEN historyFailureResponse
             ELSE historySuccessResponse(outcome.value.data, outcome.value.constituents)

\* funding times as the venue may list them: none, ascending, descending,
\* unordered, with a repeated time
HistoryTimes == {<<>>, <<1, 2, 3>>, <<3, 2, 1>>, <<2, 1, 3>>, <<2, 2>>}

BinanceHistoryBodies ==
    {Resp("reject", [array |-> FALSE, items |-> <<>>]),
     Resp("ok", [array |-> FALSE, items |-> <<>>])}
    \cup {Resp("ok", [array |-> TRUE,
                      items |-> [i \in DOMAIN times |->
                                    [fundingTime |-> Num(times[i]),
                                     fundingRate |-> Num(times[i] - 2)]]]) :
             times \in HistoryTimes}

ConstituentsBodies ==
    {Resp("reject", [hasConstituents |-> FALSE, constituents |-> <<>>]),
     Resp("ok", [hasConstituents |-> FALSE, constituents |-> <<>>]),
     Resp("ok", [hasConstituents |-> TRUE,
                 constituents |-> <<[exchange |-> "binance", symbol |-> BTCUSDT,
                                     price |-> Num(2), weight |-> Undef]>>])}

BybitHistoryBodies ==
    {Resp("reject", [retCode |-> 0, hasList |-> FALSE, list |-> <<>>]),
     Resp("ok", [retCode |-> 0, hasList |-> FALSE, list |-> <<>>])}
    \cup {Resp("ok", [retCode |-> code, hasList |-> TRUE,
                      list |-> [i \in DOMAIN times |->
                                   [fundingRateTimestamp |-> Num(times[i]),
                                    fundingRate |-> Num(times[i] - 2)]]]) :
             code \in {0, 10001}, times \in HistoryTimes}

NoUpstream == Resp("reject", [hasConstituents |-> FALSE, constituents |-> <<>>])

HistoryRequests ==
    {[symbol |-> s, exchange |-> QueryParam("Binance"), history |-> h, constituents |-> c] :
        s \in {QueryParam(BTCUSDT), QueryParam(XYZUSDT)}, h \in BinanceHistoryBodies, c \in ConstituentsBodies}
    \cup {[symbol |-> s, exchange |-> QueryParam("Bybit"), history |-> h,
           constituents |-> NoUpstream] :
        s \in {QueryParam(BTCUSDT), QueryParam(XYZUSDT)}, h \in BybitHistoryBodies}
    \cup {[symbol |-> s, exchange |-> e, history |-> NoUpstream, constituents |-> NoUpstream] :
        s \in {QueryParam(BTCUSDT), QueryParam(<<>>), [present |-> FALSE, text |-> <<>>]},
        e \in {QueryParam("OKX"), QueryParam("Binance"), QueryParam(""),
               [present |-> FALSE, text |-> ""]}}

(***************************************************************************)
(* GET /api/market-data (src/app/api/market-data/route.ts)                 *)
(***************************************************************************)
\* String.prototype.split with a one-character separator
RECURSIVE split(_, _)
split(text, sep) ==
    IF \A i \in DOMAIN text : text[i] # sep THEN <<text>>
    ELSE LET i == CHOOSE i \in DOMAIN text :
                      text[i] = sep /\ \A j \in 1..(i - 1) : text[j] # sep
         IN  <<SubSeq(text, 1, i - 1)>> \o split(SubSeq(text, i + 1, Len(text)), sep)

\* String.prototype.trim
RECURSIVE trim(_)
trim(text) ==
    IF text = <<>> THEN text
    ELSE IF Head(text) = " " THEN trim(Tail(text))
    ELSE IF text[Len(text)] = " " THEN trim(SubSeq(text, 1, Len(text) - 1))
    ELSE text

\* the names of the parameter without trim()
symbolsOfUntrimmed(symbolsParam) ==
    SelectSeq(split(symbolsParam, ","), LAMBDA name : name # <<>>)

\* symbolsParam.split(',').map(s => s.trim()).filter(Boolean)
symbolsOf(symbolsParam) ==
    SelectSeq([i \in DOMAIN split(symbolsParam, ",") |-> trim(split(symbolsParam, ",")[i])],
              LAMBDA name : name # <<>>)

NoMarketResponse ==
    [sent |-> FALSE, status |-> 0, success |-> FALSE, keys |-> {}, data |-> EmptyMap,
     timestamp |-> 0]

marketMissingParamResponse ==
    [sent |-> TRUE, status |-> 400, success |-> FALSE,
     keys |-> {"success", "error", "data"}, data |-> EmptyMap, timestamp |-> 0]

marketSuccessResponse(result) ==
    [sent |-> TRUE, status |-> 200, success |-> TRUE,
     keys |-> {"success", "data", "timestamp"}, data |-> result, timestamp |-> now]

IdleMarketRequest == [pc |-> "idle", response |-> NoMarketResponse]

\* values of the symbols parameter: absent, empty, separators and blanks
\* only, and lists of names with blanks, empty names and a repeated name
SymbolsParams ==
    {[present |-> FALSE, text |-> <<>>]}
    \cup {QueryParam(text) :
            text \in {<<>>, <<",">>, <<" ">>, <<" ", ",", " ", ",">>,
                      BTCUSDT, BTCUSDT \o <<",">> \o XYZUSDT,
                      <<" ">> \o BTCUSDT \o <<" ", ",">>,
                      BTCUSDT \o <<",", ",">> \o BTCUSDT}}

MarketRouteIdle ==
    /\ mdIn = [present |-> FALSE, text |-> <<>>]
    /\ md = IdleMarketRequest

HistoryIdle ==
    /\ histIn = [symbol |-> [present |-> FALSE, text |-> <<>>],
                 exchange |-> [present |-> FALSE, text |-> ""],
                 history |-> NoUpstream, constituents |-> NoUpstream]
    /\ histRes = NoHistoryResponse

(***************************************************************************)
(* The dashboard page (Home)                                               *)
(***************************************************************************)
\* the period of setInterval in the auto-refresh effect
REFRESH_INTERVAL == 300000

\* the refresh period the README states; the clock is observed at its multiples
README_REFRESH_INTERVAL == 60000

\* the page before it is mounted: useState's initial values, no timer
HomeUnmounted ==
    [mounted |-> FALSE, clock |-> 0, timer |-> FALSE, due |-> 0,
     loading |-> TRUE, error |-> FALSE, loaded |-> FALSE, lastUpdate |-> 0,
     inFlight |-> 0, autoPolls |-> 0, lastAuto |-> 0]

\* fetchData up to its await: setLoading(true), setError(null), fetch('/api/perps')
fetchDataStart(page) ==
    [page EXCEPT !.loading = TRUE, !.error = FALSE, !.inFlight = @ + 1]

\* fetchData after its await: a success body, a failure body, or a rejection
fetchDataSettle(page, outcome) ==
    [page EXCEPT !.loaded = @ \/ outcome = "success",
                 !.lastUpdate = IF outcome = "success" THEN page.clock ELSE @,
                 !.error = @ \/ outcome # "success",
                 !.loading = FALSE,
                 !.inFlight = @ - 1]

HomeIdle == home = HomeUnmounted

(***************************************************************************)
(* The per-symbol batch loops of the adapters                              *)
(***************************************************************************)
\* const batchSize of the four loops
BinanceOiBatchSize == 15
BinanceFundBatchSize == 10
BinanceIntervalBatchSize == 8
BybitOiBatchSize == 15

BatchLoops ==
    {[kind |-> "binanceOpenInterest", batchSize |-> BinanceOiBatchSize],
     [kind |-> "binanceInsuranceFund", batchSize |-> BinanceFundBatchSize],
     [kind |-> "binanceFundingIntervals", batchSize |-> BinanceIntervalBatchSize],
     [kind |-> "bybitOpenInterest", batchSize |-> BybitOiBatchSize]}

\* the bulk endpoints of a pass: one axios.get each, inside a try / catch
\* that returns the empty list or Map (for Bybit's instruments and tickers the
\* catch of getBybitPerps, which returns []); a run of one request
BulkRequests ==
    {[kind |-> k, batchSize |-> 1] :
        k \in {"binanceExchangeInfo", "binancePremiumIndex", "binanceTicker24hr",
               "bybitInstruments", "bybitTickers", "bybitInsurance"}}

\* the id lookups of getBatchMarketDataForSymbols for the base symbols absent
\* from the static table: one awaited after the other in src/lib/marketData.ts,
\* const concurrency at a time in the DefiLlama variant
SequentialLookups == 1
LookupConcurrency == 5

LookupLoops ==
    {[kind |-> "coinGeckoLookups", batchSize |-> SequentialLookups],
     [kind |-> "defiLlamaLookups", batchSize |-> LookupConcurrency]}

\* the for...of loop of src/lib/marketData.ts has no delay between lookups
loopDelays(l) == l.kind # "coinGeckoLookups"

\* a loop over n symbols before its first iteration; the requests of the
\* symbols in failing will reject
NewLoop(kind, batchSize, n, failing) ==
    [kind |-> kind, batchSize |-> batchSize, n |-> n, failing |-> failing,
     pc |-> "head", i |-> 0, issued |-> {}, settled |-> {},
     requests |-> [k \in 1..n |-> 0], results |-> [k \in 1..n |-> "unset"]]

NoLoop == NewLoop("none", 1, 0, {})

\* a slice of twice the batch size
batchAtWide(l) ==
    {k \in 1..l.n : l.i < k /\ k <= l.i + 2 * l.batchSize}

\* symbols.slice(i, i + batchSize), as positions in symbols
batchAt(l) ==
    {k \in 1..l.n : l.i < k /\ k <= l.i + l.batchSize}

\* Promise.race in the place of Promise.all
batchRaced(l) == batchAt(l) \cap l.settled # {}

\* await Promise.all(promises): every request of the batch has settled
\* a Promise.all that waits until every request of the batch has succeeded
batchAwaitedFulfilled(l) == batchAt(l) \subseteq (l.settled \ l.failing)

batchAwaited(l) == batchAt(l) \subseteq l.settled

\* what the loop keeps for a symbol when its request has settled: the value,
\* the default its catch block returns, or no entry (the open-interest loops
\* and the id lookups return null)
resultOf(l, k) ==
    IF k \notin l.failing THEN "value"
    ELSE IF l.kind \in {"binanceOpenInterest", "bybitOpenInterest",
                        "coinGeckoLookups", "defiLlamaLookups"} THEN "absent"
    ELSE "default"

\* an invocation of getMarketData or getBatchMarketDataForSymbols for BTCUSDT
\* that has not started
NewWriter(fn) == [fn |-> fn, pc |-> "idle", ret |-> Pending]

NoWriters == [w \in {} |-> NewWriter("none")]

\* what the final loop of the adapter makes of the symbol at position k: the
\* value, the default (oi?.contracts ?? 0 for Binance), or no record at all
\* (if (oi && ...) for Bybit)
recordUses(l, k) ==
    IF l.results[k] = "absent"
    THEN IF l.kind = "binanceOpenInterest" THEN "default"
         ELSE IF l.kind = "bybitOpenInterest" THEN "dropped"
         ELSE "absent"
    ELSE l.results[k]

\* expandedRow === null
NoRow == <<>>

\* `${symbol}-${exchange}`
rowIdOf(symbol, exchange) == <<symbol, exchange>>

\* PerpTable after its first render: the useState initial values, no request
\* of handleFundingClick in flight
NoTable ==
    [expandedRow |-> NoRow, historyData |-> <<>>, constituents |-> <<>>,
     loadingHistory |-> FALSE, fetches |-> <<>>]

TableIdle == perpTable = NoTable

\* no symbol has been given to extractBaseSymbol
ExtractIdle ==
    /\ contract = <<>>
    /\ base = <<>>

FineIdle ==
    /\ loop = NoLoop
    /\ writers = NoWriters
    /\ writes = <<>>
    /\ ExtractIdle
    /\ TableIdle

SideIdle ==
    /\ grpIn = Resp("reject", <<>>)
    /\ grpRes = Pending
    /\ HistoryIdle
    /\ MarketRouteIdle
    /\ HomeIdle
    /\ FineIdle

(***************************************************************************)
(* Market-data resolver (src/lib/marketData.ts)                            *)
(***************************************************************************)
BTCUSD == <<"B", "T", "C", "U", "S", "D">>
BTC == <<"B", "T", "C">>
ETH == <<"E", "T", "H">>
XYZ == <<"X", "Y", "Z">>

suffixes ==
    << <<"U", "S", "D", "T">>, <<"U", "S", "D">>, <<"B", "U", "S", "D">>,
       <<"U", "S", "D", "C">>, <<"E", "U", "R">>, <<"G", "B", "P">> >>

EndsWith(str, suffix) ==
    /\ Len(str) >= Len(suffix)
    /\ SubSeq(str, Len(str) - Len(suffix) + 1, Len(str)) = suffix

\* the symbol without the first suffix of the list it ends with
extractBaseSymbol(symbol) ==
    LET hits == {i \in DOMAIN suffixes : EndsWith(symbol, suffixes[i])}
    IN  IF hits = {} THEN symbol
        ELSE LET first == CHOOSE i \in hits : \A j \in hits : i <= j
             IN  SubSeq(symbol, 1, Len(symbol) - Len(suffixes[first]))

\* String.prototype.toUpperCase on the letters the provider's tickers use
LowerLetters == <<"b", "t", "c", "e", "h", "x", "y", "z">>
UpperLetters == <<"B", "T", "C", "E", "H", "X", "Y", "Z">>
toUpperCase(str) ==
    [i \in DOMAIN str |->
        IF \E j \in DOMAIN LowerLetters : LowerLetters[j] = str[i]
        THEN UpperLetters[CHOOSE j \in DOMAIN LowerLetters : LowerLetters[j] = str[i]]
        ELSE str[i]]

\* SYMBOL_TO_COINGECKO_ID, the entries of the base symbols modelled
SYMBOL_TO_COINGECKO_ID == (BTC :> "bitcoin") @@ (ETH :> "ethereum")

COINS_LIST_CACHE_TTL == 3600000
CACHE_TTL == 60000
BatchSize == 250

NoList == [set |-> FALSE, list |-> <<>>]

NoData == [marketCap |-> Null, fdv |-> Null, name |-> <<>>, image |-> <<>>]

\* getCoinsList with the upstream response resp (read only when it requests):
\* [list, cache, time, requested, failed]
getCoinsList(resp) ==
    IF coinsListCache.set /\ now - coinsListCacheTime < COINS_LIST_CACHE_TTL
    THEN [list |-> coinsListCache.list, cache |-> coinsListCache,
          time |-> coinsListCacheTime, requested |-> FALSE, failed |-> FALSE]
    ELSE IF resp.status = "ok"
         THEN [list |-> resp.body, cache |-> [set |-> TRUE, list |-> resp.body],
               time |-> now, requested |-> TRUE, failed |-> FALSE]
         ELSE [list |-> IF coinsListCache.set THEN coinsListCache.list ELSE <<>>,
               cache |-> coinsListCache, time |-> coinsListCacheTime,
               requested |-> TRUE, failed |-> TRUE]

\* findCoinGeckoIdBySymbol: [id (<<>> for null), idCache, list result]
findCoinGeckoIdBySymbol(symbol, resp) ==
    IF Has(symbolToIdCache, symbol)
    THEN [id |-> <<symbolToIdCache[symbol]>>, idCache |-> symbolToIdCache,
          cache |-> coinsListCache, time |-> coinsListCacheTime,
          requested |-> FALSE, failed |-> FALSE]
    ELSE LET got == getCoinsList(resp)
             matches == {i \in DOMAIN got.list :
                            toUpperCase(got.list[i].symbol) = toUpperCase(symbol)}
             exactMatch == CHOOSE i \in matches : \A j \in matches : i <= j
         IN  [id |-> IF matches = {} THEN <<>> ELSE <<got.list[exactMatch].id>>,
              idCache |-> IF matches = {} THEN symbolToIdCache
                          ELSE MapSet(symbolToIdCache, symbol, got.list[exactMatch].id),
              cache |-> got.cache, time |-> got.time,
              requested |-> got.requested, failed |-> got.failed]

CoinData(coin) ==
    [marketCap |-> JsOr(coin.market_cap, Null),
     fdv |-> JsOr(coin.fully_diluted_valuation, Null),
     name |-> coin.name, image |-> coin.image]

CoinId(coin) == coin.id

\* getBatchMarketData whose catch block returns the null pair for every id
getBatchMarketDataNullPairs(coinIds, resp) ==
    Ok(IF resp.status = "reject"
       THEN [id \in {coinIds[i] : i \in DOMAIN coinIds} |-> NoData]
       ELSE LET dataMap == IF resp.status = "ok"
                           THEN MapOfSeq(resp.body, CoinId, CoinData)
                           ELSE EmptyMap
            IN  [id \in {coinIds[i] : i \in DOMAIN coinIds} |->
                    IF Has(dataMap, id) THEN dataMap[id] ELSE NoData])

\* getBatchMarketData(coinIds) for a non-empty batch with upstream response resp
getBatchMarketData(coinIds, resp) ==
    TryCatch(IF resp.status = "reject" THEN Thrown
             ELSE LET dataMap == IF resp.status = "ok"
                                 THEN MapOfSeq(resp.body, CoinId, CoinData)
                                 ELSE EmptyMap
                  IN  Ok([id \in {coinIds[i] : i \in DOMAIN coinIds} |->
                             IF Has(dataMap, id) THEN dataMap[id] ELSE NoData]),
             EmptyMap)

\* getCoinMarketData(coinId) with upstream response resp: the first element
\* of a non-empty array, and { marketCap: null, fdv: null } for anything else
getCoinMarketData(resp) ==
    TryCatch(IF resp.status = "reject" THEN Thrown
             ELSE IF resp.status = "ok" /\ Len(resp.body) > 0
                  THEN Ok(CoinData(resp.body[1]))
                  ELSE Ok(NoData),
             NoData).value

\* the mapping back to the symbols asked for
symbolMapOf(symbols, symbolToCoinIdMap, resultMap) ==
    [symbol \in {symbols[i] : i \in DOMAIN symbols} |->
        LET baseSymbol == extractBaseSymbol(symbol)
        IN  IF Has(symbolToCoinIdMap, baseSymbol)
               /\ Has(resultMap, symbolToCoinIdMap[baseSymbol])
            THEN resultMap[symbolToCoinIdMap[baseSymbol]]
            ELSE NoData]

IdleCall ==
    [pc |-> "idle", symbols |-> <<>>, baseSymbols |-> <<>>, i |-> 0,
     symbolToCoinIdMap |-> EmptyMap, coinIds |-> <<>>, uncachedIds |-> <<>>,
     resultMap |-> EmptyMap, ret |-> Pending,
     requests |-> 0, failed |-> FALSE, usedList |-> FALSE, start |-> 0,
     rejected |-> {}]

NoPrev ==
    [valid |-> FALSE, symbols |-> <<>>, ret |-> Pending, failed |-> FALSE,
     requests |-> 0, start |-> 0, sinceMarket |-> 0, usedList |-> FALSE,
     sinceList |-> 0, rejected |-> {}]

MinOf(S) == CHOOSE x \in S : \A y \in S : x <= y

\* what is remembered of the invocation that has just returned
Summary(c) ==
    [valid |-> TRUE, symbols |-> c.symbols, ret |-> c.ret, failed |-> c.failed,
     requests |-> c.requests, start |-> c.start,
     sinceMarket |->
         MinOf({c.start} \cup
               {marketDataCache[c.coinIds[i]].timestamp :
                   i \in {j \in DOMAIN c.coinIds : Has(marketDataCache, c.coinIds[j])}}),
     usedList |-> c.usedList /\ coinsListCache.set,
     sinceList |-> coinsListCacheTime,
     rejected |-> c.rejected]

MaxCalls == 2
MaxTicks == 2

\* the symbol lists the resolver is asked about
SymbolLists == {<<XYZUSDT>>, <<BTCUSDT>>, <<BTCUSDT, XYZUSDT, BTCUSD>>}

\* bodies GET /coins/list may answer with
CoinLists ==
    {Resp("reject", <<>>),
     Resp("ok", <<[id |-> "bitcoin", symbol |-> <<"b", "t", "c">>]>>),
     Resp("ok", <<[id |-> "bitcoin", symbol |-> <<"b", "t", "c">>],
                  [id |-> "xyz-coin", symbol |-> <<"x", "y", "z">>]>>)}

Coin(id, cap, fdv) ==
    [id |-> id, market_cap |-> cap, fully_diluted_valuation |-> fdv,
     name |-> <<id>>, image |-> <<"img", id>>]

\* what GET /coins/markets may answer about bitcoin: nothing, or one of two
\* quotes (the second without a valuation); about xyz-coin: nothing or a quote
CoinQuotes(id) ==
    {<<>>, <<Coin(id, Num(10), Num(20))>>}
    \cup (IF id = "bitcoin" THEN {<<Coin(id, Num(11), Null)>>} ELSE {})

MarketResponses ==
    {Resp("reject", <<>>), Resp("malformed", <<>>)}
    \cup {Resp("ok", a \o b) : a \in CoinQuotes("bitcoin"), b \in CoinQuotes("xyz-coin")}

\* a call of getBatchMarketDataForSymbols(symbols) starts
Invoke(symbols) ==
    /\ call.pc \in {"idle", "done"}
    /\ calls < MaxCalls
    /\ calls' = calls + 1
    /\ prev' = IF call.pc = "done" THEN Summary(call) ELSE prev
    /\ call' = [IdleCall EXCEPT !.pc = "lookup", !.symbols = symbols,
                                !.baseSymbols =
                                    Distinct([i \in DOMAIN symbols |->
                                                 extractBaseSymbol(symbols[i])]),
                                !.i = 1, !.start = now]
    /\ UNCHANGED <<now, ticks, cacheVars>>

\* one iteration of the id-lookup loop
LookupStep ==
    /\ call.pc = "lookup"
    /\ call.i <= Len(call.baseSymbols)
    /\ LET baseSymbol == call.baseSymbols[call.i]
       IN  IF Has(SYMBOL_TO_COINGECKO_ID, baseSymbol)
           THEN /\ call' = [call EXCEPT
                               !.i = @ + 1,
                               !.symbolToCoinIdMap =
                                   MapSet(@, baseSymbol, SYMBOL_TO_COINGECKO_ID[baseSymbol]),
                               !.coinIds = Append(@, SYMBOL_TO_COINGECKO_ID[baseSymbol])]
                /\ UNCHANGED cacheVars
           ELSE \E resp \in CoinLists :
                   LET found == findCoinGeckoIdBySymbol(baseSymbol, resp)
                   IN  /\ call' = [call EXCEPT
                                      !.i = @ + 1,
                                      !.symbolToCoinIdMap =
                                          IF found.id = <<>> THEN @
                                          ELSE MapSet(@, baseSymbol, found.id[1]),
                                      !.coinIds = @ \o found.id,
                                      !.requests = @ + (IF found.requested THEN 1 ELSE 0),
                                      !.failed = @ \/ found.failed,
                                      !.usedList = @ \/ ~Has(symbolToIdCache, baseSymbol)]
                       /\ symbolToIdCache' = found.idCache
                       /\ coinsListCache' = found.cache
                       /\ coinsListCacheTime' = found.time
                       /\ UNCHANGED marketDataCache
    /\ UNCHANGED <<now, ticks, prev, calls>>

\* the freshness test that still serves an entry whose age equals the TTL
IsFreshInclusive(id) ==
    Has(marketDataCache, id) /\ now - marketDataCache[id].timestamp <= CACHE_TTL

\* the freshness test with the comparison turned around
IsFreshFlipped(id) ==
    Has(marketDataCache, id) /\ now - marketDataCache[id].timestamp > CACHE_TTL

IsFresh(id) ==
    Has(marketDataCache, id) /\ now - marketDataCache[id].timestamp < CACHE_TTL

\* after the lookups: nothing resolved, everything cached, or a fetch is due
CheckCache ==
    /\ call.pc = "lookup"
    /\ call.i > Len(call.baseSymbols)
    /\ LET coinIds == call.coinIds
           cachedIds == {coinIds[i] : i \in {j \in DOMAIN coinIds : IsFresh(coinIds[j])}}
           uncachedIds == SelectSeq(coinIds, LAMBDA id : ~IsFresh(id))
           resultMap == [id \in cachedIds |-> marketDataCache[id].data]
       IN  call' =
             IF coinIds = <<>>
             THEN [call EXCEPT !.pc = "done",
                               !.ret = [status |-> "fulfilled", value |-> EmptyMap]]
             ELSE IF uncachedIds = <<>>
             THEN [call EXCEPT !.pc = "done", !.resultMap = resultMap,
                               !.ret = [status |-> "fulfilled",
                                        value |-> symbolMapOf(call.symbols,
                                                              call.symbolToCoinIdMap,
                                                              resultMap)]]
             ELSE [call EXCEPT !.pc = "fetch", !.i = 0, !.resultMap = resultMap,
                               !.uncachedIds = uncachedIds]
    /\ UNCHANGED <<now, ticks, cacheVars, prev, calls>>

\* one batch of the market-data fetch; the last batch returns the symbol map
FetchBatch ==
    /\ call.pc = "fetch"
    /\ \E resp \in MarketResponses :
          LET last == IF call.i + BatchSize < Len(call.uncachedIds)
                      THEN call.i + BatchSize ELSE Len(call.uncachedIds)
              batch == SubSeq(call.uncachedIds, call.i + 1, last)
              outcome == getBatchMarketData(batch, resp)
              batchData == outcome.value
              resultMap == [id \in DOMAIN call.resultMap \cup DOMAIN batchData |->
                               IF Has(batchData, id) THEN batchData[id]
                               ELSE call.resultMap[id]]
          IN  /\ marketDataCache' =
                     IF outcome.thrown THEN marketDataCache
                     ELSE [id \in DOMAIN marketDataCache \cup DOMAIN batchData |->
                              IF Has(batchData, id)
                              THEN [data |-> batchData[id], timestamp |-> now]
                              ELSE marketDataCache[id]]
              /\ call' =
                     IF outcome.thrown
                     THEN [call EXCEPT !.pc = "done", !.requests = @ + 1,
                                       !.failed = TRUE,
                                       !.rejected =
                                           @ \cup {batch[k] : k \in DOMAIN batch},
                                       !.ret = [status |-> "rejected", value |-> EmptyMap]]
                     ELSE IF last < Len(call.uncachedIds)
                     THEN [call EXCEPT !.i = last, !.requests = @ + 1,
                                       !.failed = @ \/ resp.status = "reject",
                                       !.rejected =
                                           IF resp.status = "reject"
                                           THEN @ \cup {batch[k] : k \in DOMAIN batch}
                                           ELSE @,
                                       !.resultMap = resultMap]
                     ELSE [call EXCEPT !.pc = "done", !.requests = @ + 1,
                                       !.failed = @ \/ resp.status = "reject",
                                       !.rejected =
                                           IF resp.status = "reject"
                                           THEN @ \cup {batch[k] : k \in DOMAIN batch}
                                           ELSE @,
                                       !.resultMap = resultMap,
                                       !.ret = [status |-> "fulfilled",
                                                value |-> symbolMapOf(call.symbols,
                                                                      call.symbolToCoinIdMap,
                                                                      resultMap)]]
    /\ UNCHANGED <<now, ticks, symbolToIdCache, coinsListCache, coinsListCacheTime,
                   prev, calls>>

\* time passes: half a market-data TTL, or a whole coin-list TTL
Tick ==
    /\ ticks < MaxTicks
    /\ ticks' = ticks + 1
    /\ \E d \in {CACHE_TTL \div 2, COINS_LIST_CACHE_TTL} : now' = now + d
    /\ UNCHANGED <<cacheVars, call, prev, calls>>

ResolverIdle ==
    /\ now = 0
    /\ ticks = 0
    /\ calls = 0
    /\ symbolToIdCache = EmptyMap
    /\ coinsListCache = NoList
    /\ coinsListCacheTime = 0
    /\ marketDataCache = EmptyMap
    /\ call = IdleCall
    /\ prev = NoPrev

AdaptersIdle ==
    /\ passes = {}
    /\ bnIn = BinanceHealthy
    /\ byIn = BybitHealthy
    /\ bnRes = Pending
    /\ byRes = Pending

InitResolver == ResolverIdle /\ AdaptersIdle /\ get = IdleGet /\ SideIdle

NextResolver ==
    \/ \E symbols \in SymbolLists : Invoke(symbols) /\ UNCHANGED <<adapterVars, get, sideVars>>
    \/ LookupStep /\ UNCHANGED <<adapterVars, get, sideVars>>
    \/ CheckCache /\ UNCHANGED <<adapterVars, get, sideVars>>
    \/ FetchBatch /\ UNCHANGED <<adapterVars, get, sideVars>>
    \/ Tick /\ UNCHANGED <<adapterVars, get, sideVars>>

SpecResolver == InitResolver /\ [][NextResolver]_vars

(***************************************************************************)
(* One pass of an adapter: the promise it returns settles                  *)
(***************************************************************************)
Settle(outcome) ==
    IF outcome.thrown THEN [status |-> "rejected", value |-> <<>>]
    ELSE [status |-> "fulfilled", value |-> outcome.value]

BinancePass ==
    /\ "Binance" \in passes
    /\ bnRes.status = "pending"
    /\ bnRes' = Settle(getBinancePerps(bnIn))
    /\ UNCHANGED <<bnIn, byIn, byRes, passes, resolverVars, get, sideVars>>

BybitPass ==
    /\ "Bybit" \in passes
    /\ byRes.status = "pending"
    /\ byRes' = Settle(getBybitPerps(byIn))
    /\ UNCHANGED <<bnIn, byIn, bnRes, passes, resolverVars, get, sideVars>>

\* the group variant of getBinanceInsuranceFund returns
GroupFundPass ==
    /\ "BinanceGroups" \in passes
    /\ grpRes.status = "pending"
    /\ grpRes' = [status |-> "fulfilled",
                  value |-> getBinanceInsuranceFundGroup(grpIn)]
    /\ UNCHANGED <<adapterVars, resolverVars, get, grpIn, historyVars, marketRouteVars, homeVars, fineVars>>

InitAdapters ==
    /\ ResolverIdle
    /\ HistoryIdle
    /\ MarketRouteIdle
    /\ HomeIdle
    /\ FineIdle
    /\ get = IdleGet
    /\ bnRes = Pending
    /\ byRes = Pending
    /\ grpRes = Pending
    /\ \/ /\ passes = {"Binance"}
          /\ bnIn \in BinanceWorlds /\ byIn = BybitHealthy /\ SideIdle
       \/ /\ passes = {"Bybit"}
          /\ bnIn = BinanceHealthy /\ byIn \in BybitWorlds /\ SideIdle
       \/ /\ passes = {"BinanceGroups"}
          /\ bnIn = BinanceHealthy /\ byIn = BybitHealthy
          /\ grpIn \in GroupFundResponses

NextAdapters == BinancePass \/ BybitPass \/ GroupFundPass

SpecAdapters == InitAdapters /\ [][NextAdapters]_vars

(***************************************************************************)
(* One request GET /api/funding-history                                    *)
(***************************************************************************)
FundingHistoryGET ==
    /\ ~histRes.sent
    /\ histRes' = fundingHistoryGET(histIn)
    /\ UNCHANGED <<adapterVars, resolverVars, get, legacyVars, histIn, marketRouteVars, homeVars, fineVars>>

InitHistory ==
    /\ ResolverIdle
    /\ AdaptersIdle
    /\ get = IdleGet
    /\ grpIn = Resp("reject", <<>>)
    /\ grpRes = Pending
    /\ histIn \in HistoryRequests
    /\ histRes = NoHistoryResponse
    /\ MarketRouteIdle
    /\ HomeIdle
    /\ FineIdle

NextHistory == FundingHistoryGET

SpecHistory == InitHistory /\ [][NextHistory]_vars

(***************************************************************************)
(* One request GET /api/market-data                                        *)
(***************************************************************************)
\* the handler up to its await: the two early returns, or the resolver call
MarketDataStart ==
    /\ md.pc = "idle"
    /\ IF ~mdIn.present \/ mdIn.text = <<>>
       THEN /\ md' = [pc |-> "responded", response |-> marketMissingParamResponse]
            /\ UNCHANGED resolverVars
       ELSE IF symbolsOf(mdIn.text) = <<>>
       THEN /\ md' = [pc |-> "responded", response |-> marketSuccessResponse(EmptyMap)]
            /\ UNCHANGED resolverVars
       ELSE /\ md' = [md EXCEPT !.pc = "resolving"]
            /\ Invoke(symbolsOf(mdIn.text))
    /\ UNCHANGED <<adapterVars, get, legacyVars, historyVars, mdIn, homeVars, fineVars>>

\* the resolver has returned: its Map becomes the data object.  The catch
\* block of the handler is not an action: nothing in its try block throws,
\* getBatchMarketDataForSymbols catches its own failures.
MarketDataRespond ==
    /\ md.pc = "resolving"
    /\ call.pc = "done"
    /\ call.ret.status = "fulfilled"
    /\ md' = [pc |-> "responded", response |-> marketSuccessResponse(call.ret.value)]
    /\ UNCHANGED <<adapterVars, resolverVars, get, legacyVars, historyVars, mdIn, homeVars, fineVars>>

InitMarketData ==
    /\ ResolverIdle
    /\ AdaptersIdle
    /\ get = IdleGet
    /\ grpIn = Resp("reject", <<>>)
    /\ grpRes = Pending
    /\ HistoryIdle
    /\ HomeIdle
    /\ FineIdle
    /\ mdIn \in SymbolsParams
    /\ md = IdleMarketRequest

NextMarketData ==
    \/ MarketDataStart
    \/ LookupStep /\ UNCHANGED <<adapterVars, get, sideVars>>
    \/ CheckCache /\ UNCHANGED <<adapterVars, get, sideVars>>
    \/ FetchBatch /\ UNCHANGED <<adapterVars, get, sideVars>>
    \/ MarketDataRespond
    \/ Tick /\ UNCHANGED <<adapterVars, get, sideVars>>

SpecMarketData == InitMarketData /\ [][NextMarketData]_vars

(***************************************************************************)
(* The dashboard page: mount, timer, clicks and responses                  *)
(***************************************************************************)
MaxPeriods == 10
MaxInFlight == 2

\* both effects run: the initial fetchData() and setInterval
HomeMount ==
    /\ home = HomeUnmounted
    /\ home' = [fetchDataStart(home) EXCEPT !.mounted = TRUE, !.timer = TRUE,
                                            !.due = home.clock + REFRESH_INTERVAL]
    /\ UNCHANGED <<adapterVars, resolverVars, get, legacyVars, historyVars, marketRouteVars,
                   fineVars>>

\* the interval elapses: its callback calls fetchData()
HomeIntervalFires ==
    /\ home.timer
    /\ home.clock = home.due
    /\ home.inFlight < MaxInFlight
    /\ home' = [fetchDataStart(home) EXCEPT !.due = home.clock + REFRESH_INTERVAL,
                                            !.autoPolls = @ + 1,
                                            !.lastAuto = home.clock]
    /\ UNCHANGED <<adapterVars, resolverVars, get, legacyVars, historyVars, marketRouteVars,
                   fineVars>>

\* the refresh button: onClick = fetchData
HomeRefreshClick ==
    /\ home.mounted
    /\ home.inFlight < MaxInFlight
    /\ home' = fetchDataStart(home)
    /\ UNCHANGED <<adapterVars, resolverVars, get, legacyVars, historyVars, marketRouteVars,
                   fineVars>>

\* a request to /api/perps settles
HomeFetchSettles ==
    /\ home.inFlight > 0
    /\ \E outcome \in {"success", "failure", "rejected"} :
          home' = fetchDataSettle(home, outcome)
    /\ UNCHANGED <<adapterVars, resolverVars, get, legacyVars, historyVars, marketRouteVars,
                   fineVars>>

\* time passes, but not past a timer that is due
HomeTimePasses ==
    /\ home.mounted
    /\ home.clock < MaxPeriods * README_REFRESH_INTERVAL
    /\ home.timer => home.clock + README_REFRESH_INTERVAL <= home.due
    /\ home' = [home EXCEPT !.clock = @ + README_REFRESH_INTERVAL]
    /\ UNCHANGED <<adapterVars, resolverVars, get, legacyVars, historyVars, marketRouteVars,
                   fineVars>>

\* the cleanup of the effect: clearInterval
HomeUnmount ==
    /\ home.mounted
    /\ home.timer
    /\ home' = [home EXCEPT !.timer = FALSE, !.mounted = FALSE]
    /\ UNCHANGED <<adapterVars, resolverVars, get, legacyVars, historyVars, marketRouteVars,
                   fineVars>>

InitHome ==
    /\ ResolverIdle
    /\ AdaptersIdle
    /\ get = IdleGet
    /\ grpIn = Resp("reject", <<>>)
    /\ grpRes = Pending
    /\ HistoryIdle
    /\ MarketRouteIdle
    /\ home = HomeUnmounted
    /\ FineIdle

NextHome ==
    \/ HomeMount
    \/ HomeIntervalFires
    \/ HomeRefreshClick
    \/ HomeFetchSettles
    \/ HomeTimePasses
    \/ HomeUnmount

SpecHome == InitHome /\ [][NextHome]_vars

(***************************************************************************)
(* One batch loop, request by request                                      *)
(***************************************************************************)
\* the for statement's test, and batch.map issuing the requests of a batch
LoopHead ==
    /\ loop.pc = "head"
    /\ loop' = IF loop.i < loop.n
               THEN [loop EXCEPT !.pc = "await",
                                 !.issued = @ \cup batchAt(loop),
                                 !.requests = [k \in 1..loop.n |->
                                                  IF k \in batchAt(loop) THEN @[k] + 1
                                                  ELSE @[k]]]
               ELSE [loop EXCEPT !.pc = "done"]
    /\ UNCHANGED <<adapterVars, resolverVars, get, legacyVars, historyVars, marketRouteVars,
                   homeVars, writers, writes, contract, base, perpTable>>

\* one request in flight resolves or rejects
RequestSettles ==
    /\ \E k \in loop.issued \ loop.settled :
          loop' = [loop EXCEPT !.settled = @ \cup {k}]
    /\ UNCHANGED <<adapterVars, resolverVars, get, legacyVars, historyVars, marketRouteVars,
                   homeVars, writers, writes, contract, base, perpTable>>

\* Promise.all has resolved: results.forEach, then the delay or the next test
LoopCollect ==
    /\ loop.pc = "await"
    /\ batchAwaited(loop)
    /\ loop' = [loop EXCEPT
                   !.results = [k \in 1..loop.n |->
                                   IF k \in batchAt(loop) /\ k \in loop.settled
                                   THEN resultOf(loop, k) ELSE @[k]],
                   !.pc = IF loopDelays(loop) /\ loop.i + loop.batchSize < loop.n
                          THEN "delay" ELSE "head",
                   !.i = IF loopDelays(loop) /\ loop.i + loop.batchSize < loop.n
                         THEN @ ELSE @ + loop.batchSize]
    /\ UNCHANGED <<adapterVars, resolverVars, get, legacyVars, historyVars, marketRouteVars,
                   homeVars, writers, writes, contract, base, perpTable>>

\* the setTimeout between two batches has elapsed: i += batchSize
LoopDelayElapses ==
    /\ loop.pc = "delay"
    /\ loop' = [loop EXCEPT !.pc = "head", !.i = @ + loop.batchSize]
    /\ UNCHANGED <<adapterVars, resolverVars, get, legacyVars, historyVars, marketRouteVars,
                   homeVars, writers, writes, contract, base, perpTable>>

\* symbol lists: empty, one symbol, one more than a batch; the requests that
\* reject: none, the first, all
InitBatches ==
    /\ ResolverIdle
    /\ AdaptersIdle
    /\ get = IdleGet
    /\ grpIn = Resp("reject", <<>>)
    /\ grpRes = Pending
    /\ HistoryIdle
    /\ MarketRouteIdle
    /\ HomeIdle
    /\ \E b \in BatchLoops \cup LookupLoops \cup BulkRequests :
          \E n \in IF b \in BulkRequests THEN {1} ELSE {0, 1, b.batchSize + 1} :
             \E failing \in {{}, {k \in 1..n : k = 1}, 1..n} :
                loop = NewLoop(b.kind, b.batchSize, n, failing)
    /\ writers = NoWriters
    /\ writes = <<>>
    /\ ExtractIdle
    /\ TableIdle

NextBatches ==
    \/ LoopHead
    \/ RequestSettles
    \/ LoopCollect
    \/ LoopDelayElapses

SpecBatches == InitBatches /\ [][NextBatches]_vars

(***************************************************************************)
(* Two resolver invocations for BTCUSDT that interleave                    *)
(***************************************************************************)
\* what GET /coins/markets?ids=bitcoin may answer
BitcoinResponses ==
    {Resp("reject", <<>>), Resp("malformed", <<>>)}
    \cup {Resp("ok", quotes) : quotes \in CoinQuotes("bitcoin")}

\* the invocation up to its first await: BTC is in the static table, so the
\* cache check comes first; a fresh entry is returned, else the request is sent
WriterStarts(w) ==
    /\ writers[w].pc = "idle"
    /\ writers' = [writers EXCEPT ![w] =
                      IF IsFresh("bitcoin")
                      THEN [@ EXCEPT !.pc = "done",
                                     !.ret = [status |-> "fulfilled",
                                              value |-> marketDataCache["bitcoin"].data]]
                      ELSE [@ EXCEPT !.pc = "fetching"]]
    /\ UNCHANGED <<adapterVars, resolverVars, get, legacyVars, historyVars, marketRouteVars,
                   homeVars, loop, writes, contract, base, perpTable>>

\* getMarketData after its await: the data, or the null pair of a failed
\* request, is cached
SingleFetchSettles(w) ==
    /\ writers[w].pc = "fetching"
    /\ writers[w].fn = "getMarketData"
    /\ \E resp \in BitcoinResponses :
          LET entry == [data |-> getCoinMarketData(resp), timestamp |-> now]
          IN  /\ marketDataCache' = MapSet(marketDataCache, "bitcoin", entry)
              /\ writes' = Append(writes, [writer |-> w, entry |-> entry])
              /\ writers' = [writers EXCEPT ![w] =
                                [@ EXCEPT !.pc = "done",
                                          !.ret = [status |-> "fulfilled",
                                                   value |-> entry.data]]]
    /\ UNCHANGED <<adapterVars, now, ticks, symbolToIdCache, coinsListCache,
                   coinsListCacheTime, call, prev, calls, get, legacyVars, historyVars,
                   marketRouteVars, homeVars, loop, contract, base, perpTable>>

\* getBatchMarketDataForSymbols after its await: batchData.forEach caches what
\* the batch returned, which is nothing when the request failed
BatchFetchSettles(w) ==
    /\ writers[w].pc = "fetching"
    /\ writers[w].fn = "getBatchMarketDataForSymbols"
    /\ \E resp \in BitcoinResponses :
          LET batchData == getBatchMarketData(<<"bitcoin">>, resp).value
              entry == [data |-> batchData["bitcoin"], timestamp |-> now]
          IN  IF Has(batchData, "bitcoin")
              THEN /\ marketDataCache' = MapSet(marketDataCache, "bitcoin", entry)
                   /\ writes' = Append(writes, [writer |-> w, entry |-> entry])
                   /\ writers' = [writers EXCEPT ![w] =
                                     [@ EXCEPT !.pc = "done",
                                               !.ret = [status |-> "fulfilled",
                                                        value |-> entry.data]]]
              ELSE /\ UNCHANGED <<marketDataCache, writes>>
                   /\ writers' = [writers EXCEPT ![w] =
                                     [@ EXCEPT !.pc = "done",
                                               !.ret = [status |-> "fulfilled",
                                                        value |-> NoData]]]
    /\ UNCHANGED <<adapterVars, now, ticks, symbolToIdCache, coinsListCache,
                   coinsListCacheTime, call, prev, calls, get, legacyVars, historyVars,
                   marketRouteVars, homeVars, loop, contract, base, perpTable>>

InitRace ==
    /\ ResolverIdle
    /\ AdaptersIdle
    /\ get = IdleGet
    /\ grpIn = Resp("reject", <<>>)
    /\ grpRes = Pending
    /\ HistoryIdle
    /\ MarketRouteIdle
    /\ HomeIdle
    /\ loop = NoLoop
    /\ writers \in [{1, 2} -> {NewWriter("getMarketData"),
                               NewWriter("getBatchMarketDataForSymbols")}]
    /\ writes = <<>>
    /\ ExtractIdle
    /\ TableIdle

NextRace ==
    \/ \E w \in {1, 2} : WriterStarts(w)
    \/ \E w \in {1, 2} : SingleFetchSettles(w)
    \/ \E w \in {1, 2} : BatchFetchSettles(w)
    \/ Tick /\ UNCHANGED <<adapterVars, get, sideVars>>

SpecRace == InitRace /\ [][NextRace]_vars

(***************************************************************************)
(* extractBaseSymbol applied to a contract symbol                          *)
(***************************************************************************)
\* contract symbols: a base asset (which may be empty or itself a quote
\* currency) followed by a known suffix, by nothing or by another ending
BaseAssets ==
    {BTC, ETH, XYZ, <<"B">>, <<>>, <<"U", "S", "D", "T">>, <<"E", "U", "R">>}

Endings ==
    {suffixes[i] : i \in DOMAIN suffixes}
    \cup {<<>>, <<"P", "E", "R", "P">>, <<"U", "S", "D", "T", "M">>}

ContractSymbols == {asset \o ending : asset \in BaseAssets, ending \in Endings}

Extract ==
    /\ base = <<>>
    /\ base' = <<extractBaseSymbol(contract)>>
    /\ UNCHANGED <<adapterVars, resolverVars, get, legacyVars, historyVars, marketRouteVars,
                   homeVars, loop, writers, writes, contract, perpTable>>

InitExtract ==
    /\ ResolverIdle
    /\ AdaptersIdle
    /\ get = IdleGet
    /\ grpIn = Resp("reject", <<>>)
    /\ grpRes = Pending
    /\ HistoryIdle
    /\ MarketRouteIdle
    /\ HomeIdle
    /\ loop = NoLoop
    /\ writers = NoWriters
    /\ writes = <<>>
    /\ contract \in ContractSymbols
    /\ base = <<>>
    /\ TableIdle

NextExtract == Extract

SpecExtract == InitExtract /\ [][NextExtract]_vars

(***************************************************************************)
(* PerpTable: the expandable funding-history row                           *)
(***************************************************************************)
\* the rows of the table, one per (symbol, exchange)
TableRows ==
    {[symbol |-> BTCUSDT, exchange |-> "Binance"],
     [symbol |-> BTCUSDT, exchange |-> "Bybit"],
     [symbol |-> XYZUSDT, exchange |-> "Binance"]}

\* requests of handleFundingClick that may be in flight at once
MaxFetches == 3

\* what /api/funding-history answers for a row: success with the row's
\* history and constituents, success with neither, an error body, or a
\* rejected fetch; the payload names the row it was fetched for
HistoryResults(symbol, exchange) ==
    {[thrown |-> FALSE, success |-> TRUE,
      data |-> <<[symbol |-> symbol, exchange |-> exchange]>>,
      constituents |-> IF exchange = "Binance"
                       THEN <<[symbol |-> symbol, exchange |-> exchange]>>
                       ELSE <<>>],
     [thrown |-> FALSE, success |-> TRUE, data |-> <<>>, constituents |-> <<>>],
     [thrown |-> FALSE, success |-> FALSE, data |-> <<>>, constituents |-> <<>>],
     [thrown |-> TRUE, success |-> FALSE, data |-> <<>>, constituents |-> <<>>]}

\* handleFundingClick up to its await: collapse the expanded row, or expand
\* another one, clear what is shown and send the request
handleFundingClick(symbol, exchange) ==
    LET rowId == rowIdOf(symbol, exchange)
    IN  IF perpTable.expandedRow = rowId
        THEN perpTable' =
               [perpTable EXCEPT !.expandedRow = NoRow, !.historyData = <<>>,
                                 !.fetches = [k \in DOMAIN @ |->
                                                 [@[k] EXCEPT !.latest = FALSE]]]
        ELSE /\ Len(perpTable.fetches) < MaxFetches
             /\ perpTable' =
                  [perpTable EXCEPT
                      !.expandedRow = rowId,
                      !.loadingHistory = TRUE,
                      !.historyData = <<>>,
                      !.constituents = <<>>,
                      !.fetches = Append([k \in DOMAIN @ |->
                                             [@[k] EXCEPT !.latest = FALSE]],
                                         [symbol |-> symbol, exchange |-> exchange,
                                          latest |-> TRUE])]

FundingClick ==
    /\ \E row \in TableRows : handleFundingClick(row.symbol, row.exchange)
    /\ UNCHANGED <<adapterVars, resolverVars, get, legacyVars, historyVars,
                   marketRouteVars, homeVars, loop, writers, writes, contract, base>>

\* the rest of handleFundingClick: the k-th request in flight settles
HistoryArrives ==
    /\ \E k \in DOMAIN perpTable.fetches :
          \E result \in HistoryResults(perpTable.fetches[k].symbol,
                                       perpTable.fetches[k].exchange) :
             perpTable' =
               [perpTable EXCEPT
                   !.historyData = IF result.success THEN result.data ELSE @,
                   !.constituents = IF result.success THEN result.constituents ELSE @,
                   !.loadingHistory = FALSE,
                   !.fetches = [j \in 1..(Len(@) - 1) |->
                                   IF j < k THEN @[j] ELSE @[j + 1]]]
    /\ UNCHANGED <<adapterVars, resolverVars, get, legacyVars, historyVars,
                   marketRouteVars, homeVars, loop, writers, writes, contract, base>>

InitTable ==
    /\ ResolverIdle
    /\ AdaptersIdle
    /\ get = IdleGet
    /\ grpIn = Resp("reject", <<>>)
    /\ grpRes = Pending
    /\ HistoryIdle
    /\ MarketRouteIdle
    /\ HomeIdle
    /\ loop = NoLoop
    /\ writers = NoWriters
    /\ writes = <<>>
    /\ ExtractIdle
    /\ perpTable = NoTable

NextTable == FundingClick \/ HistoryArrives

SpecTable == InitTable /\ [][NextTable]_vars

(***************************************************************************)
(* GET /api/perps: the steps of one request                                *)
(***************************************************************************)
MaxRequests == 1

\* the handler calls both adapters
GetStart ==
    /\ get.pc \in {"idle", "responded"}
    /\ calls < MaxRequests
    /\ get' = [IdleGet EXCEPT !.pc = "adapters"]
    /\ passes' = {"Binance", "Bybit"}
    /\ bnRes' = Pending
    /\ byRes' = Pending
    /\ UNCHANGED <<bnIn, byIn, resolverVars, sideVars>>

\* Promise.all has fulfilled: merge, then ask the resolver
GetMerge ==
    /\ get.pc = "adapters"
    /\ bnRes.status = "fulfilled"
    /\ byRes.status = "fulfilled"
    /\ get' = [get EXCEPT !.pc = "resolving",
                          !.perpsMap = perpsMapOf(bnRes.value, byRes.value)]
    /\ Invoke(uniqueSymbolsOf(bnRes.value, byRes.value))
    /\ UNCHANGED <<adapterVars, sideVars>>

\* the resolver has returned: fill in the market data and respond
GetRespond ==
    /\ get.pc = "resolving"
    /\ call.pc = "done"
    /\ call.ret.status = "fulfilled"
    /\ get' = [get EXCEPT
                  !.pc = "responded",
                  !.response =
                      successResponse(MapSeq(get.perpsMap,
                                             LAMBDA perp :
                                                 fillMarketData(perp, call.ret.value)))]
    /\ UNCHANGED <<adapterVars, resolverVars, sideVars>>

\* the catch block: an awaited promise has rejected
GetCatch ==
    /\ \/ /\ get.pc = "adapters"
          /\ "rejected" \in {bnRes.status, byRes.status}
       \/ /\ get.pc = "resolving"
          /\ call.pc = "done"
          /\ call.ret.status = "rejected"
    /\ get' = [get EXCEPT !.pc = "responded", !.response = failureResponse]
    /\ UNCHANGED <<adapterVars, resolverVars, sideVars>>

\* upstream worlds of a request: Binance lists BTCUSDT and XYZUSDT, Bybit
\* BTCUSDT; a listing, open-interest or insurance request may fail, and the
\* Binance insurance balance may be negative
GetBinanceWorlds ==
    {[BinanceHealthy EXCEPT
         !.exchangeInfo = e,
         !.premiumIndex = Resp("ok", <<[symbol |-> BTCUSDT, markPrice |-> Num(2)],
                                       [symbol |-> XYZUSDT, markPrice |-> Num(3)]>>),
         !.openInterest[BTCUSDT] = ob[1],
         !.insuranceBalance[BTCUSDT] = ob[2]] :
        e \in {Resp("reject", <<>>),
               Resp("ok", <<[symbol |-> BTCUSDT, tradable |-> TRUE,
                             fundingIntervalHours |-> Undef],
                            [symbol |-> XYZUSDT, tradable |-> TRUE,
                             fundingIntervalHours |-> Undef]>>)},
        ob \in {<<Resp("reject", Undef), FundResp("ok", TRUE, Num(7))>>,
                <<Resp("ok", Num(5)), FundResp("reject", FALSE, Undef)>>,
                <<Resp("ok", Num(5)), FundResp("ok", TRUE, Num(-1))>>,
                <<Resp("ok", Num(5)), FundResp("ok", TRUE, Num(7))>>}}

\* the venue reports mark price 50000, 100 contracts and a balance of 500
BinanceScenario ==
    [BinanceHealthy EXCEPT
        !.premiumIndex = Resp("ok", <<[symbol |-> BTCUSDT, markPrice |-> Num(50000)]>>),
        !.openInterest[BTCUSDT] = Resp("ok", Num(100)),
        !.insuranceBalance[BTCUSDT] = FundResp("ok", TRUE, Num(500))]

\* the exchange information lists BTCUSDT twice
BinanceRepeats ==
    [BinanceHealthy EXCEPT
        !.exchangeInfo =
            Resp("ok", <<[symbol |-> BTCUSDT, tradable |-> TRUE,
                          fundingIntervalHours |-> Undef],
                         [symbol |-> BTCUSDT, tradable |-> TRUE,
                          fundingIntervalHours |-> Undef]>>)]

GetBybitWorlds ==
    {[BybitHealthy EXCEPT !.instruments = i] :
        i \in {Resp("reject", <<>>), BybitHealthy.instruments}}

InitGet ==
    /\ ResolverIdle
    /\ get = IdleGet
    /\ SideIdle
    /\ passes = {}
    /\ bnIn \in GetBinanceWorlds \cup {BinanceScenario, BinanceRepeats}
    /\ byIn \in GetBybitWorlds
    /\ bnRes = Pending
    /\ byRes = Pending

NextGet ==
    \/ GetStart
    \/ BinancePass
    \/ BybitPass
    \/ GetMerge
    \/ LookupStep /\ UNCHANGED <<adapterVars, get, sideVars>>
    \/ CheckCache /\ UNCHANGED <<adapterVars, get, sideVars>>
    \/ FetchBatch /\ UNCHANGED <<adapterVars, get, sideVars>>
    \/ GetRespond
    \/ Tick /\ UNCHANGED <<adapterVars, get, sideVars>>

SpecGet == InitGet /\ [][NextGet]_vars

(***************************************************************************)
(* GET /api/perps against dependencies whose promises may reject           *)
(***************************************************************************)
BinanceRejects ==
    /\ "Binance" \in passes
    /\ bnRes.status = "pending"
    /\ bnRes' = [status |-> "rejected", value |-> <<>>]
    /\ UNCHANGED <<bnIn, byIn, byRes, passes, resolverVars, get, sideVars>>

BybitRejects ==
    /\ "Bybit" \in passes
    /\ byRes.status = "pending"
    /\ byRes' = [status |-> "rejected", value |-> <<>>]
    /\ UNCHANGED <<bnIn, byIn, bnRes, passes, resolverVars, get, sideVars>>

ResolverRejects ==
    /\ call.pc \in {"lookup", "fetch"}
    /\ call' = [call EXCEPT !.pc = "done",
                            !.ret = [status |-> "rejected", value |-> EmptyMap]]
    /\ UNCHANGED <<adapterVars, now, ticks, cacheVars, prev, calls, get, sideVars>>

NextGetFault ==
    \/ NextGet
    \/ BinanceRejects
    \/ BybitRejects
    \/ ResolverRejects
    \/ GetCatch

SpecGetFault == InitGet /\ [][NextGetFault]_vars

(***************************************************************************)
(* GET /api/perps with the requests of one adapter loop settling one by    *)
(* one                                                                     *)
(***************************************************************************)
\* the loop of the request at hand runs inside its adapter's pass
LoopStep ==
    /\ get.pc = "adapters"
    /\ \/ LoopHead
       \/ RequestSettles
       \/ LoopCollect
       \/ LoopDelayElapses

\* the upstream world in which the exchange-information request and the
\* open-interest request for BTCUSDT of Binance fail
FailingBinanceWorlds ==
    {w \in GetBinanceWorlds : /\ w.exchangeInfo.status = "reject"
                              /\ w.openInterest[BTCUSDT].status = "reject"}

\* what getBinancePerps and getBybitPerps return in each of these worlds
binancePerpsIn == [w \in FailingBinanceWorlds |-> Settle(getBinancePerps(w))]

bybitPerpsIn == [w \in {BybitHealthy} |-> Settle(getBybitPerps(w))]

\* getBinancePerps returns; Promise.all settles only after the loop has ended
BinanceReturns ==
    /\ loop.pc = "done"
    /\ "Binance" \in passes
    /\ bnRes.status = "pending"
    /\ bnRes' = binancePerpsIn[bnIn]
    /\ UNCHANGED <<bnIn, byIn, byRes, passes, resolverVars, get, sideVars>>

\* getBybitPerps returns; Promise.all settles only after the loop has ended
BybitReturns ==
    /\ loop.pc = "done"
    /\ "Bybit" \in passes
    /\ byRes.status = "pending"
    /\ byRes' = bybitPerpsIn[byIn]
    /\ UNCHANGED <<bnIn, byIn, bnRes, passes, resolverVars, get, sideVars>>

\* symbol lists: empty or one more than a batch; the requests that reject:
\* none or all
InitLive ==
    /\ ResolverIdle
    /\ get = IdleGet
    /\ grpIn = Resp("reject", <<>>)
    /\ grpRes = Pending
    /\ HistoryIdle
    /\ MarketRouteIdle
    /\ HomeIdle
    /\ passes = {}
    /\ bnIn \in FailingBinanceWorlds
    /\ byIn = BybitHealthy
    /\ bnRes = Pending
    /\ byRes = Pending
    /\ \E b \in BatchLoops \cup BulkRequests :
          \E n \in IF b \in BulkRequests THEN {1} ELSE {0, b.batchSize + 1} :
             \E failing \in {{}, 1..n} :
                loop = NewLoop(b.kind, b.batchSize, n, failing)
    /\ writers = NoWriters
    /\ writes = <<>>
    /\ ExtractIdle
    /\ TableIdle

NextLive ==
    \/ GetStart
    \/ LoopStep
    \/ BinanceReturns
    \/ BybitReturns
    \/ GetMerge
    \/ LookupStep /\ UNCHANGED <<adapterVars, get, sideVars>>
    \/ CheckCache /\ UNCHANGED <<adapterVars, get, sideVars>>
    \/ FetchBatch /\ UNCHANGED <<adapterVars, get, sideVars>>
    \/ GetRespond

\* every continuation that is ready runs, every timer fires, and every
\* upstream request settles; a client need not send a request
FairLive ==
    /\ WF_vars(LoopStep)
    /\ WF_vars(BinanceReturns)
    /\ WF_vars(BybitReturns)
    /\ WF_vars(GetMerge)
    /\ WF_vars(LookupStep /\ UNCHANGED <<adapterVars, get, sideVars>>)
    /\ WF_vars(CheckCache /\ UNCHANGED <<adapterVars, get, sideVars>>)
    /\ WF_vars(FetchBatch /\ UNCHANGED <<adapterVars, get, sideVars>>)
    /\ WF_vars(GetRespond)

SpecLive == InitLive /\ [][NextLive]_vars /\ FairLive


(***************************************************************************)
(* What the upstream responses of a pass say about a symbol                *)
(***************************************************************************)
InBody(resp, s) == resp.status = "ok" /\ \E i \in DOMAIN resp.body : resp.body[i].symbol = s

BnListed(s) ==
    /\ bnIn.exchangeInfo.status = "ok"
    /\ \E i \in DOMAIN bnIn.exchangeInfo.body :
          bnIn.exchangeInfo.body[i].symbol = s /\ bnIn.exchangeInfo.body[i].tradable

BnPricePositive(s) ==
    \/ /\ bnIn.premiumIndex.status = "ok"
       /\ \E i \in DOMAIN bnIn.premiumIndex.body :
             /\ bnIn.premiumIndex.body[i].symbol = s
             /\ JsGt(bnIn.premiumIndex.body[i].markPrice, Num(0))
    \/ /\ bnIn.ticker24hr.status = "ok"
       /\ \E i \in DOMAIN bnIn.ticker24hr.body :
             /\ bnIn.ticker24hr.body[i].symbol = s
             /\ JsGt(bnIn.ticker24hr.body[i].lastPrice, Num(0))

BnOiMissing(s) ==
    bnIn.openInterest[s].status # "ok" \/ bnIn.openInterest[s].body = Undef

BnFundMissing(s) ==
    \/ bnIn.insuranceBalance[s].status # "ok"
    \/ ~bnIn.insuranceBalance[s].usdt
    \/ bnIn.insuranceBalance[s].marginBalance = Undef

ByListed(s) ==
    /\ byIn.instruments.status = "ok"
    /\ \E i \in DOMAIN byIn.instruments.body :
          byIn.instruments.body[i].symbol = s /\ byIn.instruments.body[i].tradable

ByPricePositive(s) ==
    /\ byIn.tickers.status = "ok"
    /\ \E i \in DOMAIN byIn.tickers.body :
          /\ byIn.tickers.body[i].symbol = s
          /\ \/ JsGt(byIn.tickers.body[i].markPrice, Num(0))
             \/ JsGt(byIn.tickers.body[i].lastPrice, Num(0))

ByOiMissing(s) ==
    \/ byIn.openInterest[s].status # "ok"
    \/ ~byIn.openInterest[s].retCode0
    \/ byIn.openInterest[s].body \in {<<>>, <<Undef>>}

ByFundMissing ==
    \/ byIn.insurance.status # "ok"
    \/ ~byIn.insurance.retCode0
    \/ byIn.insurance.body = <<>>

RecordsOf(res) == {res.value[i] : i \in DOMAIN res.value}

Emitted == RecordsOf(bnRes) \cup RecordsOf(byRes)

(***************************************************************************)
(* C2: every record emitted by getBinancePerps or getBybitPerps has        *)
(* fundingIntervalHours >= 1 for every interval the venue reports, and the *)
(* value is 8 when the interval cannot be resolved (the Binance funding    *)
(* history fails or holds fewer than two entries; Bybit's instrument has   *)
(* no fundingInterval).                                                    *)
(***************************************************************************)
C2_IntervalAtLeastOneHour ==
    /\ \A r \in Emitted : JsGe(r.fundingIntervalHours, Num(1))
    /\ \A r \in RecordsOf(bnRes) :
          (bnIn.fundingRate[r.symbol].status # "ok"
              \/ Len(bnIn.fundingRate[r.symbol].body) < 2)
          => r.fundingIntervalHours = Num(8)
    /\ \A r \in RecordsOf(byRes) :
          (\A i \in DOMAIN byIn.instruments.body :
              byIn.instruments.body[i].symbol = r.symbol
              => byIn.instruments.body[i].fundingInterval = Undef)
          => r.fundingIntervalHours = Num(8)

(***************************************************************************)
(* C4: in each adapter a listed symbol whose mark or last price is         *)
(* positive is emitted whatever happens to its open-interest or            *)
(* insurance-fund request; when the open-interest request fails or is      *)
(* empty its record has openInterest = 0 and openInterestValue = 0, when   *)
(* the insurance-fund request fails or is empty it has insuranceFund = 0.  *)
(* So a symbol is dropped only when its price is absent too, and the       *)
(* failure of one symbol never removes the record of another.              *)
(***************************************************************************)
C4_OiFailureKeepsRecord ==
    /\ bnRes.status = "fulfilled" =>
          \A s \in Symbols : BnListed(s) /\ BnPricePositive(s) =>
              \E r \in RecordsOf(bnRes) :
                  /\ r.symbol = s
                  /\ BnOiMissing(s) =>
                        r.openInterest = Num(0) /\ r.openInterestValue = Num(0)
                  /\ BnFundMissing(s) => r.insuranceFund = Num(0)
    /\ byRes.status = "fulfilled" =>
          \A s \in Symbols : ByListed(s) /\ ByPricePositive(s) =>
              \E r \in RecordsOf(byRes) :
                  /\ r.symbol = s
                  /\ ByOiMissing(s) =>
                        r.openInterest = Num(0) /\ r.openInterestValue = Num(0)
                  /\ ByFundMissing => r.insuranceFund = Num(0)

(***************************************************************************)
(* C5: an adapter emits a record only if its markPrice or its lastPrice is *)
(* a positive number; no emitted record has both prices non-positive.      *)
(***************************************************************************)
C5_EmittedHasPositivePrice ==
    \A r \in Emitted : JsGt(r.markPrice, Num(0)) \/ JsGt(r.lastPrice, Num(0))

(***************************************************************************)
(* C6: getBinancePerps and getBybitPerps never reject, whatever the        *)
(* outcome (success, malformed body, rejection) of each upstream request,  *)
(* and resolve to the empty list when the symbol-universe request          *)
(* (exchangeInfo, instruments-info) fails.                                 *)
(***************************************************************************)
C6_AdaptersNeverReject ==
    /\ bnRes.status # "rejected"
    /\ byRes.status # "rejected"
    /\ bnRes.status = "fulfilled" /\ bnIn.exchangeInfo.status # "ok"
          => bnRes.value = <<>>
    /\ byRes.status = "fulfilled" /\ byIn.instruments.status # "ok"
          => byRes.value = <<>>

\* a Bybit pass whose instruments request was rejected has settled, and a
\* Binance pass whose exchangeInfo body was malformed could settle the same way
C6_Witness ==
    /\ byRes.status = "fulfilled"
    /\ byIn.instruments.status = "reject"
    /\ byRes.value = <<>>


(***************************************************************************)
(* Claims about the resolver                                               *)
(***************************************************************************)
Returned == call.pc = "done"

\* C9: when a call of getBatchMarketDataForSymbols has returned, it has not
\* rejected and its map has an entry for every symbol of the input list, the
\* entry {marketCap: null, fdv: null} for a symbol that did not resolve, also
\* when no symbol of the list resolved.
C9_EntryForEverySymbol ==
    Returned =>
        /\ call.ret.status = "fulfilled"
        /\ \A i \in DOMAIN call.symbols :
              /\ Has(call.ret.value, call.symbols[i])
              /\ ~Has(call.symbolToCoinIdMap, extractBaseSymbol(call.symbols[i]))
                    => call.ret.value[call.symbols[i]] = NoData

\* the call that has just returned asked about the same symbols as the call
\* before it, and no cache entry that call read or wrote has since expired
SecondCallWithinTtl ==
    /\ Returned
    /\ prev.valid
    /\ prev.symbols = call.symbols
    /\ now - prev.sinceMarket < CACHE_TTL
    /\ prev.usedList => now - prev.sinceList < COINS_LIST_CACHE_TTL

SecondCallServedFromCache ==
    /\ call.requests = 0
    /\ call.ret = prev.ret

Responded == get.pc = "responded"

ResponseData == {get.response.data[i] : i \in DOMAIN get.response.data}

\* C1: every record of a response of GET /api/perps has fundOiRatio >= 0, and
\* fundOiRatio = 0 when its openInterestValue is 0, whatever its insuranceFund.
C1_RatioNonNegative ==
    Responded =>
        \A r \in ResponseData :
            /\ JsGe(r.fundOiRatio, Num(0))
            /\ r.openInterestValue = Num(0) => r.fundOiRatio = Num(0)

EmittedBy(res, symbol) ==
    res.status = "fulfilled" /\ \E r \in RecordsOf(res) : r.symbol = symbol

\* C10: when both adapters emitted a record for a symbol, the response holds
\* two distinct records for it, one per exchange, and the two have the same
\* marketCap, fdv, coinName and coinImage.
C10_BothVenuesSameMarketData ==
    Responded /\ get.response.success =>
        \A s \in Symbols : EmittedBy(bnRes, s) /\ EmittedBy(byRes, s) =>
            \E i, j \in DOMAIN get.response.data :
                LET a == get.response.data[i]
                    b == get.response.data[j]
                IN  /\ i # j
                    /\ a.symbol = s /\ a.exchange = "Binance"
                    /\ b.symbol = s /\ b.exchange = "Bybit"
                    /\ \A k \in DOMAIN get.response.data :
                          get.response.data[k].symbol = s => k \in {i, j}
                    /\ a.marketCap = b.marketCap
                    /\ a.fdv = b.fdv
                    /\ a.coinName = b.coinName
                    /\ a.coinImage = b.coinImage

\* a response in which BTCUSDT comes from both venues and the provider had a
\* quote for it
C10_Witness ==
    /\ Responded
    /\ get.response.success
    /\ EmittedBy(bnRes, BTCUSDT)
    /\ EmittedBy(byRes, BTCUSDT)
    /\ \E r \in ResponseData :
          r.symbol = BTCUSDT /\ r.exchange = "Bybit" /\ IsNum(r.marketCap)
             /\ r.coinName # <<>>

C8_ResponseShape ==
    get.response.sent =>
        \/ /\ get.response.success
           /\ get.response.keys = {"success", "data", "timestamp"}
           /\ get.response.status = 200
        \/ /\ ~get.response.success
           /\ get.response.keys = {"success", "error", "data"}
           /\ get.response.status \notin 200..299
           /\ get.response.data = <<>>

\* a failure response sent after the records of a venue had been merged
C8_Witness ==
    /\ get.response.sent
    /\ ~get.response.success
    /\ get.perpsMap # <<>>

(***************************************************************************)
(* Claims about the insurance fund                                         *)
(***************************************************************************)
\* the pools of the Bybit insurance response that hold the symbol and have a
\* positive balance
PoolsOf(symbol) ==
    IF byIn.insurance.status = "ok" /\ byIn.insurance.retCode0
    THEN {i \in DOMAIN byIn.insurance.body :
             /\ \E j \in DOMAIN byIn.insurance.body[i].symbols :
                   byIn.insurance.body[i].symbols[j] = symbol
             /\ JsGt(byIn.insurance.body[i].balance, Num(0))}
    ELSE {}

\* the groups of the all-groups insurance response that hold the symbol
GroupsOf(symbol) ==
    IF grpIn.status = "array"
    THEN {i \in DOMAIN grpIn.body :
             /\ grpIn.body[i].listed /\ grpIn.body[i].usdt
             /\ \E j \in DOMAIN grpIn.body[i].symbols :
                   grpIn.body[i].symbols[j] = symbol}
    ELSE {}

\* C11: a symbol of a pool shared by several symbols gets the whole balance of
\* that pool as its insuranceFund, not a share of it, and the handler's
\* fundOiRatio of its record is computed against the whole balance.  This is
\* stated for the Bybit pools, for the per-symbol Binance request (the symbol
\* gets the whole USDT balance its response reports) and for the Binance
\* request that returns all groups.
C11_FullPoolBalance ==
    /\ \A r \in RecordsOf(byRes) : \A i \in PoolsOf(r.symbol) :
          (PoolsOf(r.symbol) = {i} /\ Len(byIn.insurance.body[i].symbols) > 1) =>
              /\ r.insuranceFund = byIn.insurance.body[i].balance
              /\ JsGt(r.openInterestValue, Num(0)) =>
                    fundOiRatio(r) =
                        JsMul(JsDiv(byIn.insurance.body[i].balance,
                                    r.openInterestValue), Num(100))
    /\ \A r \in RecordsOf(bnRes) :
          LET resp == bnIn.insuranceBalance[r.symbol]
          IN  (resp.status = "ok" /\ resp.usdt /\ IsNum(resp.marginBalance)) =>
                  r.insuranceFund = resp.marginBalance
    /\ grpRes.status = "fulfilled" =>
          \A sym \in Symbols : \A i \in GroupsOf(sym) :
              GroupsOf(sym) = {i} =>
                  /\ Has(grpRes.value, sym)
                  /\ grpRes.value[sym] = parseFloatOr0(grpIn.body[i].marginBalance)

\* C12: a Bybit record carries the largest balance among the pools that hold
\* its symbol, whatever the order of the pools in the response, and 0 when no
\* pool with a positive balance holds it.
C12_MaxOverPools ==
    \A r \in RecordsOf(byRes) :
        IF PoolsOf(r.symbol) = {}
        THEN r.insuranceFund = Num(0)
        ELSE /\ \E i \in PoolsOf(r.symbol) :
                   r.insuranceFund = byIn.insurance.body[i].balance
             /\ \A i \in PoolsOf(r.symbol) :
                   JsGe(r.insuranceFund, byIn.insurance.body[i].balance)

\* BTCUSDT is emitted; it is in two pools, the first one the larger
C12_Witness ==
    /\ byRes.status = "fulfilled"
    /\ PoolsOf(BTCUSDT) = {1, 2}
    /\ JsGt(byIn.insurance.body[1].balance, byIn.insurance.body[2].balance)
    /\ \E r \in RecordsOf(byRes) :
          r.symbol = BTCUSDT /\ r.insuranceFund = byIn.insurance.body[1].balance

(***************************************************************************)
(* Claims about the funding interval                                       *)
(***************************************************************************)
\* the two most recent funding times of the symbol, when the request for them
\* succeeded and returned at least two
FundingTimes(symbol) ==
    LET resp == bnIn.fundingRate[symbol]
    IN  IF resp.status = "ok" /\ Len(resp.body) >= 2
        THEN <<resp.body[1].n, resp.body[2].n>>
        ELSE <<>>

\* round(d / 3,600,000), halves up, floored at 1, for a distance d >= 0 in ms
HoursApart(d) ==
    LET rounded == (2 * d + 3600000) \div 7200000
    IN  IF rounded < 1 THEN 1 ELSE rounded

\* C13: the fundingIntervalHours of a Binance record is
\* max(1, round(|t0 - t1| / 3,600,000)) for the two funding times t0, t1 of its
\* symbol: 4 when they are 14,400,000 ms apart, 1 when they are equal, the same
\* in either order; it is 8 when the request failed or returned fewer than two.
C13_InferredInterval ==
    \A r \in RecordsOf(bnRes) :
        LET t == FundingTimes(r.symbol)
        IN  IF t = <<>> THEN r.fundingIntervalHours = Num(8)
            ELSE /\ r.fundingIntervalHours = Num(HoursApart(AbsInt(t[1] - t[2])))
                 /\ AbsInt(t[1] - t[2]) = 14400000 => r.fundingIntervalHours = Num(4)
                 /\ t[1] = t[2] => r.fundingIntervalHours = Num(1)

\* BTCUSDT is emitted with interval 4 from funding times 14,400,000 ms apart,
\* the older one listed first
C13_Witness ==
    \E r \in RecordsOf(bnRes) :
        /\ r.symbol = BTCUSDT
        /\ FundingTimes(BTCUSDT) # <<>>
        /\ FundingTimes(BTCUSDT)[2] - FundingTimes(BTCUSDT)[1] = 14400000
        /\ r.fundingIntervalHours = Num(4)

(***************************************************************************)
(* Claims about the aggregated numbers                                     *)
(***************************************************************************)
\* what Binance reports for the symbol: its mark price, contracts and balance,
\* when all three requests succeeded with numbers
BnSnapshot(symbol) ==
    LET marks == IF bnIn.premiumIndex.status = "ok"
                 THEN {i \in DOMAIN bnIn.premiumIndex.body :
                          bnIn.premiumIndex.body[i].symbol = symbol}
                 ELSE {}
        last == CHOOSE i \in marks : \A j \in marks : j <= i
        oi == bnIn.openInterest[symbol]
        fund == bnIn.insuranceBalance[symbol]
    IN  IF /\ marks # {}
           /\ IsNum(bnIn.premiumIndex.body[last].markPrice)
           /\ oi.status = "ok" /\ IsNum(oi.body)
           /\ fund.status = "ok" /\ fund.usdt /\ IsNum(fund.marginBalance)
        THEN <<[p |-> bnIn.premiumIndex.body[last].markPrice.n,
                c |-> oi.body.n, f |-> fund.marginBalance.n]>>
        ELSE <<>>

\* C14: a response record of a venue that reported mark price p > 0, c
\* contracts and insurance balance f has openInterestValue = c * p and
\* fundOiRatio = f / (c * p) * 100; for p = 50000, c = 100, f = 500 these are
\* 5,000,000 and 0.01.
C14_EndToEndNumbers ==
    (Responded /\ get.response.success) =>
        \A r \in ResponseData :
            (r.exchange = "Binance" /\ BnSnapshot(r.symbol) # <<>>) =>
                LET v == BnSnapshot(r.symbol)[1]
                IN  (v.p > 0 /\ v.c > 0) =>
                        /\ r.openInterestValue = Num(v.c * v.p)
                        /\ IsNum(r.fundOiRatio)
                        /\ r.fundOiRatio.n * (v.c * v.p) = v.f * 100 * r.fundOiRatio.d
                        /\ (v.p = 50000 /\ v.c = 100 /\ v.f = 500) =>
                              /\ r.openInterestValue = Num(5000000)
                              /\ r.fundOiRatio = Rat(1, 100)

\* the response holds the record of the 50000 / 100 / 500 snapshot
C14_Witness ==
    /\ Responded
    /\ get.response.success
    /\ \E r \in ResponseData :
          /\ r.exchange = "Binance"
          /\ r.price = Num(50000)
          /\ r.openInterest = Num(100)
          /\ r.insuranceFund = Num(500)
          /\ r.openInterestValue = Num(5000000)

(***************************************************************************)
(* Claims about the funding-history endpoint                               *)
(***************************************************************************)
HistoryServed == histRes.sent /\ histRes.success

\* C15: the sequence a successful funding-history response returns is in
\* non-decreasing time order, for Binance and for Bybit, whatever order the
\* venue listed its entries in.
C15_OldestToNewest ==
    HistoryServed =>
        \A i, j \in DOMAIN histRes.data :
            i < j => histRes.data[i].time.n <= histRes.data[j].time.n

\* C16: when the history request of a Binance funding-history request succeeds
\* and its constituents request fails, the response is a success that carries
\* the fetched history and an empty constituents list.
C16_ConstituentsBestEffort ==
    (/\ histRes.sent
     /\ histIn.exchange.text = "Binance"
     /\ histIn.symbol.present /\ histIn.symbol.text # <<>>
     /\ histIn.history.status = "ok" /\ histIn.history.body.array
     /\ histIn.constituents.status = "reject") =>
        /\ histRes.success
        /\ histRes.status = 200
        /\ histRes.constituents = <<>>
        /\ Len(histRes.data) = Len(histIn.history.body.items)
        /\ \A i \in DOMAIN histRes.data :
              /\ histRes.data[i].time = histIn.history.body.items[i].fundingTime
              /\ histRes.data[i].rate = histIn.history.body.items[i].fundingRate

\* a served Binance history of three points whose constituents request failed
C16_Witness ==
    /\ HistoryServed
    /\ histIn.exchange.text = "Binance"
    /\ histIn.constituents.status = "reject"
    /\ Len(histRes.data) = 3
    /\ histRes.constituents = <<>>

(***************************************************************************)
(* Claims about the market-data endpoint                                   *)
(***************************************************************************)
OnlySeparators(text) == \A i \in DOMAIN text : text[i] \in {",", " "}

ResolverNeverInvoked == calls = 0 /\ call = IdleCall

\* C17: a request to the market-data endpoint without a symbols parameter, or
\* with an empty one, is answered with status 400, success = false and an
\* error, and the resolver is not invoked; a parameter made of separators and
\* blanks only is answered with success and empty data, and the resolver is
\* not invoked either.
C17_EarlyReturns ==
    /\ (~mdIn.present \/ mdIn.text = <<>>) =>
          /\ ResolverNeverInvoked
          /\ md.pc = "responded" =>
                /\ md.response.status = 400
                /\ ~md.response.success
                /\ "error" \in md.response.keys
    /\ (mdIn.present /\ mdIn.text # <<>> /\ OnlySeparators(mdIn.text)) =>
          /\ ResolverNeverInvoked
          /\ md.pc = "responded" =>
                /\ md.response.success
                /\ md.response.status = 200
                /\ md.response.data = EmptyMap

\* a parameter of blanks and commas has been answered
C17_Witness ==
    /\ md.pc = "responded"
    /\ mdIn.text = <<" ", ",", " ", ",">>
    /\ md.response.success
    /\ md.response.data = EmptyMap

(***************************************************************************)
(* Claims about one aggregation pass                                       *)
(***************************************************************************)
VenueSymbols == {r.symbol : r \in RecordsOf(bnRes) \cup RecordsOf(byRes)}

\* C18: in a pass of GET /api/perps the resolver is invoked exactly once: only
\* by the step that follows the return of both adapters, by every such step,
\* and no successful response is sent without that step; the list it is given
\* holds every symbol the venues emitted, each exactly once.
C18_ResolverOncePerPass ==
    [][/\ calls' # calls =>
             /\ calls' = calls + 1
             /\ get.pc = "adapters" /\ get'.pc = "resolving"
             /\ bnRes.status = "fulfilled" /\ byRes.status = "fulfilled"
             /\ {call'.symbols[i] : i \in DOMAIN call'.symbols} = VenueSymbols
             /\ \A i, j \in DOMAIN call'.symbols :
                   call'.symbols[i] = call'.symbols[j] => i = j
       /\ (get.pc = "adapters" /\ get'.pc # "adapters") =>
             (get'.pc = "resolving" /\ calls' = calls + 1)
       /\ (get'.pc = "responded" /\ get.pc # "responded") => get.pc = "resolving"
      ]_vars

\* both venues emitted BTCUSDT and the resolver was given it once
C18_Witness ==
    /\ get.pc = "resolving"
    /\ calls = 1
    /\ \E r \in RecordsOf(bnRes) : r.symbol = BTCUSDT
    /\ \E r \in RecordsOf(byRes) : r.symbol = BTCUSDT
    /\ \E r \in RecordsOf(bnRes) : r.symbol = XYZUSDT
    /\ call.symbols = <<BTCUSDT, XYZUSDT>>

\* C19: a successful response of GET /api/perps never holds two records with
\* the same symbol and exchange, even when an adapter emitted a symbol twice.
C19_UniqueSymbolExchange ==
    (Responded /\ get.response.success) =>
        \A i, j \in DOMAIN get.response.data :
            (/\ get.response.data[i].symbol = get.response.data[j].symbol
             /\ get.response.data[i].exchange = get.response.data[j].exchange) => i = j

\* Binance emitted BTCUSDT twice and the response holds it once
C19_Witness ==
    /\ Responded
    /\ get.response.success
    /\ \E i, j \in DOMAIN bnRes.value :
          i # j /\ bnRes.value[i].symbol = BTCUSDT /\ bnRes.value[j].symbol = BTCUSDT
    /\ \E r \in ResponseData : r.symbol = BTCUSDT /\ r.exchange = "Binance"

(***************************************************************************)
(* Claims about the dashboard page                                         *)
(***************************************************************************)
\* C20: while the page is shown with its timer running, no more than 60
\* seconds pass between its load and its first automatic poll of
\* /api/perps, nor between one automatic poll and the next.
C20_PollsEveryMinute ==
    (home.mounted /\ home.timer) =>
        home.clock - home.lastAuto <= README_REFRESH_INTERVAL

(***************************************************************************)
(* Claims about the batch loops                                            *)
(***************************************************************************)
InFlight == loop.issued \ loop.settled

\* the batch a symbol position belongs to
BatchOf(k) == (k - 1) \div loop.batchSize

\* C21: in a per-symbol batch loop no request of a later batch is issued
\* before every request of the batches before it has settled, and the requests
\* in flight never outnumber the loop's batch size: 15, 10 and 8 for the
\* Binance loops, 15 for Bybit's.
C21_BatchesSequential ==
    /\ \A j \in loop.issued : \A k \in 1..loop.n :
          BatchOf(k) < BatchOf(j) => k \in loop.settled
    /\ Cardinality(InFlight) <= loop.batchSize
    /\ loop.kind = "binanceOpenInterest" => Cardinality(InFlight) <= 15
    /\ loop.kind = "binanceInsuranceFund" => Cardinality(InFlight) <= 10
    /\ loop.kind = "binanceFundingIntervals" => Cardinality(InFlight) <= 8
    /\ loop.kind = "bybitOpenInterest" => Cardinality(InFlight) <= 15

\* the second batch of the insurance-fund loop is in flight
C21_Witness ==
    /\ loop.kind = "binanceInsuranceFund"
    /\ loop.n = 11
    /\ InFlight = {11}
    /\ loop.settled = 1..10

\* C22: during the id lookups of one invocation of getBatchMarketDataForSymbols
\* at most 5 lookups are in flight at any time, and a lookup of a later batch
\* is started only when every lookup of the batches before it has settled.
C22_LookupsRateLimited ==
    loop.kind \in {"coinGeckoLookups", "defiLlamaLookups"} =>
        /\ Cardinality(loop.issued \ loop.settled) <= 5
        /\ \A j \in loop.issued : \A k \in 1..(j - 1) :
              (j - 1) \div loop.batchSize > (k - 1) \div loop.batchSize =>
                  k \in loop.settled

\* five lookups of the DefiLlama variant have settled and the sixth is in flight
C22_Witness ==
    /\ loop.kind = "defiLlamaLookups"
    /\ loop.settled = 1..5
    /\ loop.issued = 1..6

(***************************************************************************)
(* Claims about interleaved resolver invocations                           *)
(***************************************************************************)
\* every cache entry is one that a single fetch wrote as a whole
EntriesWhole ==
    \A id \in DOMAIN marketDataCache :
        \E k \in DOMAIN writes : writes[k].entry = marketDataCache[id]

\* the entry in the cache is the one written last
LastWriterWins ==
    writes # <<>> => marketDataCache["bitcoin"] = writes[Len(writes)].entry

\* C23: when two resolver invocations interleave at their network calls and
\* write the same cache key, every marketDataCache entry is a whole
\* {data, timestamp} pair of one fetch, the entry left is the one written last,
\* and the two writers store equal values for the key.
C23_RacingWritersAgree ==
    /\ EntriesWhole
    /\ LastWriterWins
    /\ \A j, k \in DOMAIN writes : writes[j].entry.data = writes[k].entry.data

AdapterRequests == {b.kind : b \in BatchLoops \cup BulkRequests}

\* no request is sent twice
NoRequestTwice == \A k \in 1..loop.n : loop.requests[k] <= 1

\* C24: within a pass of an adapter every per-symbol endpoint is requested at
\* most once per symbol and every bulk endpoint at most once, also after a
\* failure, and a failed request is replaced by its default value.
C24_NoRetryButDefault ==
    loop.kind \in AdapterRequests =>
        /\ NoRequestTwice
        /\ loop.pc = "done" =>
              \A k \in loop.failing \cap 1..loop.n : recordUses(loop, k) = "default"

(***************************************************************************)
(* Claims about the valuation of the open interest                         *)
(***************************************************************************)
\* the best available price of a record: its mark price when positive,
\* otherwise its last price
BestPrice(r) == IF JsGt(r.markPrice, Num(0)) THEN r.markPrice ELSE r.lastPrice

\* C25: every record an adapter emits with a positive open interest and a
\* positive best price has openInterestValue = openInterest * that price; in
\* particular, with a positive last price its openInterestValue is not 0.
C25_ValuedAtBestPrice ==
    \A r \in Emitted :
        (JsGt(r.openInterest, Num(0)) /\ JsGt(BestPrice(r), Num(0))) =>
            /\ r.openInterestValue = JsMul(r.openInterest, BestPrice(r))
            /\ r.openInterestValue # Num(0)

(***************************************************************************)
(* Claims about extractBaseSymbol                                          *)
(***************************************************************************)
\* the known quote-currency suffixes the symbol ends in
SuffixesOf(symbol) ==
    {suffixes[i] : i \in {j \in DOMAIN suffixes : EndsWith(symbol, suffixes[j])}}

\* C26: extractBaseSymbol returns a symbol that ends in a known suffix without
\* that whole suffix (four letters for a symbol ending in BUSD), removing one
\* suffix only, and returns a symbol that ends in none of them unchanged.
C26_WholeSuffixRemoved ==
    base # <<>> =>
        IF SuffixesOf(contract) = {} THEN base[1] = contract
        ELSE LET whole == CHOOSE x \in SuffixesOf(contract) :
                              \A y \in SuffixesOf(contract) : Len(y) <= Len(x)
             IN  /\ base[1] \o whole = contract
                 /\ EndsWith(contract, <<"B", "U", "S", "D">>) =>
                       Len(base[1]) = Len(contract) - 4

(***************************************************************************)
(* Claims about failed fetches and expired entries                         *)
(***************************************************************************)
\* the call that has just returned follows a call for the same symbols
FollowsSameCall == Returned /\ prev.valid /\ prev.symbols = call.symbols

\* C27: a call whose market-data request was rejected has written nothing to
\* marketDataCache for the identifiers of that request, and the next call for
\* the same symbols requests those identifiers again, also within the TTL.
C27_FailedFetchNotCached ==
    /\ Returned => \A id \in call.rejected : ~IsFresh(id)
    /\ FollowsSameCall =>
          prev.rejected \subseteq {call.uncachedIds[i] : i \in DOMAIN call.uncachedIds}

\* the call before failed to fetch bitcoin, and this call, inside the TTL, has
\* requested it again
C27_Witness ==
    /\ FollowsSameCall
    /\ "bitcoin" \in prev.rejected
    /\ now - prev.start < CACHE_TTL
    /\ \E i \in DOMAIN call.uncachedIds : call.uncachedIds[i] = "bitcoin"
    /\ call.requests > 0

\* the step that ends the lookups and reads marketDataCache
CacheIsRead == call.pc = "lookup" /\ call'.pc # "lookup"

\* the step in which one market-data request of the call settles
FetchSettles == call.pc = "fetch" /\ call'.requests = call.requests + 1

\* the ids requested by the only batch of the call
Requested == {call.uncachedIds[i] : i \in DOMAIN call.uncachedIds}

\* an entry is served from marketDataCache only while younger than the TTL,
\* and every other id of the call goes into the request
ServedOnlyWhileYoung ==
    CacheIsRead =>
       \A id \in {call.coinIds[i] : i \in DOMAIN call.coinIds} :
          IF Has(marketDataCache, id) /\ now - marketDataCache[id].timestamp < CACHE_TTL
          THEN /\ Has(call'.resultMap, id)
               /\ call'.resultMap[id] = marketDataCache[id].data
               /\ id \notin {call'.uncachedIds[i] : i \in DOMAIN call'.uncachedIds}
          ELSE /\ ~Has(call'.resultMap, id)
               /\ id \in {call'.uncachedIds[i] : i \in DOMAIN call'.uncachedIds}

\* the entry of id has been written as a whole at the present instant
ReplacedNow(id) ==
    /\ Has(marketDataCache', id)
    /\ marketDataCache'[id].timestamp = now
    /\ marketDataCache'[id].data = call'.resultMap[id]

\* C28 as stated: an entry is served from marketDataCache only while its age
\* is below CACHE_TTL; every other identifier is fetched again and its entry
\* is replaced as a whole with a fresh timestamp.
C28_ExpiredAlwaysReplaced ==
    [][/\ ServedOnlyWhileYoung
       /\ FetchSettles => \A id \in Requested : ReplacedNow(id)]_vars

\* C28, amended: an entry is served from marketDataCache only while its age is
\* below CACHE_TTL; every other identifier is fetched again, and its entry is
\* replaced as a whole with a fresh timestamp when the request succeeds, and
\* is left as it was when the request fails.
C28_ExpiredRefetched ==
    [][/\ ServedOnlyWhileYoung
       /\ FetchSettles =>
             \A id \in Requested :
                IF id \in call'.rejected
                THEN /\ Has(marketDataCache', id) = Has(marketDataCache, id)
                     /\ Has(marketDataCache, id) =>
                           marketDataCache'[id] = marketDataCache[id]
                     /\ ~Has(call'.resultMap, id)
                ELSE ReplacedNow(id)]_vars

\* the entry of bitcoin written by the call before was exactly CACHE_TTL old
\* when this call read the cache, and this call has fetched and replaced it
C28_Witness ==
    /\ Returned
    /\ prev.valid
    /\ BTCUSDT \in DOMAIN prev.ret.value
    /\ now = CACHE_TTL
    /\ "bitcoin" \in Requested \ call.rejected
    /\ Has(marketDataCache, "bitcoin")
    /\ marketDataCache["bitcoin"].timestamp = now

(***************************************************************************)
(* Claims about the expanded row of PerpTable                              *)
(***************************************************************************)
\* every entry shown was fetched for the expanded row
ShownBelongToExpandedRow ==
    \A e \in {perpTable.historyData[i] : i \in DOMAIN perpTable.historyData}
             \cup {perpTable.constituents[i] : i \in DOMAIN perpTable.constituents} :
       rowIdOf(e.symbol, e.exchange) = perpTable.expandedRow

\* the request sent by the click that expanded the present row is in flight
ExpandedRowRequestInFlight ==
    /\ perpTable.expandedRow # NoRow
    /\ \E k \in DOMAIN perpTable.fetches : perpTable.fetches[k].latest

\* C29: whenever a row is expanded and not loading, the history and the
\* constituents shown under it are those fetched for that row, and
\* loadingHistory is true while the expanded row's request is in flight.
C29_ExpandedRowShowsOwnHistory ==
    /\ (perpTable.expandedRow # NoRow /\ ~perpTable.loadingHistory) =>
          ShownBelongToExpandedRow
    /\ ExpandedRowRequestInFlight => perpTable.loadingHistory

(***************************************************************************)
(* Termination                                                             *)
(***************************************************************************)
\* C30: provided every upstream request settles, every call of GET
\* /api/perps is answered: the batch loop of the call ends, whether or not
\* its requests failed, and the handler sends its response.
C30_EveryCallReturns ==
    (get.pc = "adapters") ~>
        (loop.pc = "done" /\ get.pc = "responded" /\ get.response.sent)

\* a response has been sent after a loop of two batches whose requests all
\* failed
C30_Witness ==
    /\ get.pc = "responded"
    /\ get.response.sent
    /\ loop.pc = "done"
    /\ loop.n > loop.batchSize
    /\ loop.failing = 1..loop.n
    /\ loop.settled = 1..loop.n

====
